---------------------------- MODULE Spec2Model ----------------------------
(***************************************************************************)
(* A model of kvm-serial's input-encoding and wire-protocol layer:         *)
(*   - utils/utils.py          build_scancode, merge_scancodes,            *)
(*                             ascii_to_scancode                            *)
(*   - utils/keyboard_layouts.py  BASE_LAYOUT, LAYOUT_OVERRIDES, get_layout *)
(*   - utils/communication.py  DataComm.send / send_scancode / release      *)
(*   - backend/implementations/{pynputop,qtop,tkop}.py  press and release   *)
(*                             handlers with their modifier_map             *)
(*                                                                         *)
(* Bytes are integers 0..255; a bytes object, an array("B") and a list of   *)
(* ints are sequences of bytes.  Python indexes from 0, sequences here from *)
(* 1: At(s, i) reads Python's s[i].                                         *)
(*                                                                         *)
(*   - backend/implementations/pyusbop.py  PyUSBOp.run and _parse_key       *)
(*                                                                         *)
(* The specifications share the variables:                                  *)
(*   SpecMerge    merge_scancodes applied to inputs drawn by Init           *)
(*   SpecBuild    build_scancode followed by merge_scancodes, twice         *)
(*   SpecComm     sequences of DataComm calls on one serial port            *)
(*   SpecBackend  sequences of key events handled by one capture backend    *)
(*   SpecAgree    one key pressed in two capture backends                   *)
(*   SpecUsb      PyUSBOp.run: one poll of the keyboard endpoint per step   *)
(*   SpecFault    all of the above on a serial port that may fail           *)
(*   SpecEndpoints  get_usb_endpoints applied to devices drawn by Init      *)
(*   SpecMouse    the MouseOp handlers on coordinates, buttons and deltas   *)
(*   SpecListen   KeyboardListener and MouseListener threads on one port    *)
(*   SpecListenLive  SpecListen with fair scheduling of the threads         *)
(*   SpecAscii    ascii_to_scancode applied to inputs drawn by Init         *)
(*   SpecString   string_to_scancodes applied to inputs drawn by Init       *)
(*   SpecRoundTrip  ascii_to_scancode followed by scancode_to_ascii          *)
(***************************************************************************)
EXTENDS Integers, Sequences, FiniteSets, TLC

VARIABLES
    byte_arrays,    \* merge_scancodes: the argument of the call
    merged,         \* merge_scancodes: outcome of the call, NotCalled before it
    port,           \* the serial port: the packets written so far, in order
    call,           \* the last call or event delivered: operation and arguments
    ret,            \* its outcome: return value, exception raised, log lines
    backend,        \* which capture backend the behaviour is about
    darwin,         \* sys.platform == "darwin" (read by qtop at import)
    modifier_map,   \* the backend's modifier_map, in dict (insertion) order
    running,        \* pynput: the Listener has not been stopped
    pressed,        \* history: modifier keys pressed and not yet released
    port_open,      \* the serial port accepts writes (FALSE: write raises)
    write_calls,    \* history: every packet handed to port.write, in order
    usb_pc,         \* PyUSBOp.run: "idle", "loop", "returned" or "raised"
    driver_active,  \* the kernel driver is attached to the keyboard interface
    detached,       \* history: run() detached the kernel driver at its start
    disposed,       \* dispose_resources(dev) has been called
    debounce,       \* PyUSBOp.debounce
    reads,          \* history: the reports endpoint.read returned, in order
    forwarded,      \* history: the arguments given to send_scancode by run()
    usb_endpoints,  \* PyUSBOp.usb_endpoints: what get_usb_endpoints returned
    mode,           \* KeyboardListener.mode
    thread,         \* each listener's capture thread: where it is
    caller,         \* the code that owns the listeners: where it is with each
    writing,        \* each thread's port.write in progress: packet, bytes sent
    wire,           \* the bytes on the serial line, in order
    frames          \* history: how many packets each listener's thread wrote

transport == <<port_open, write_calls>>
usbvars == <<usb_pc, driver_active, detached, disposed, debounce, reads,
             forwarded, usb_endpoints>>

listenvars == <<mode, thread, caller, writing, wire, frames>>

vars == <<byte_arrays, merged, port, call, ret, backend, darwin,
          modifier_map, running, pressed, transport, usbvars, listenvars>>

\* A serial port that accepts every write, and nothing written yet.
PortOpen == port_open = TRUE /\ write_calls = <<>>

\* No PyUSBOp in the behaviour.
NoUsb ==
    /\ usb_pc = "none"
    /\ driver_active = TRUE
    /\ detached = FALSE
    /\ disposed = FALSE
    /\ debounce = "None"
    /\ reads = <<>>
    /\ forwarded = <<>>
    /\ usb_endpoints = <<>>

Listeners == { "keyboard", "mouse" }

NotWriting == [packet |-> <<>>, sent |-> 0]

\* No listener thread in the behaviour.
NoListeners ==
    /\ mode = "NONE"
    /\ thread = [l \in Listeners |-> "none"]
    /\ caller = [l \in Listeners |-> "none"]
    /\ writing = [l \in Listeners |-> NotWriting]
    /\ wire = <<>>
    /\ frames = [l \in Listeners |-> 0]

(***************************************************************************)
(* Bounds of the model.                                                    *)
(***************************************************************************)
MaxArrays == 3      \* longest list handed to merge_scancodes
MaxWrites == 2      \* SpecComm: packets written before the calls stop
MaxReports == 3     \* SpecBackend: reports written before the events stop

(***************************************************************************)
(* Bytes.                                                                  *)
(***************************************************************************)
At(s, i) == s[i + 1]

RECURSIVE BitOr(_, _)
BitOr(a, b) ==
    IF a = 0 THEN b
    ELSE IF b = 0 THEN a
    ELSE (IF a % 2 = 1 \/ b % 2 = 1 THEN 1 ELSE 0) + 2 * BitOr(a \div 2, b \div 2)

RECURSIVE BitAnd(_, _)
BitAnd(a, b) ==
    IF a = 0 \/ b = 0 THEN 0
    ELSE (IF a % 2 = 1 /\ b % 2 = 1 THEN 1 ELSE 0) + 2 * BitAnd(a \div 2, b \div 2)

RECURSIVE SumBytes(_)
SumBytes(s) == IF s = <<>> THEN 0 ELSE s[1] + SumBytes(Tail(s))

Zeros(n) == [i \in 1..n |-> 0]

(***************************************************************************)
(* utils.py: build_scancode and merge_scancodes.                           *)
(***************************************************************************)
SCANCODE_LENGTH == 8

build_scancode(byte, modifier) ==
    [Zeros(8) EXCEPT ![3] = byte, ![1] = modifier]

Returned(v) == [err |-> "none", val |-> v]
Raised(e) == [err |-> e, val |-> <<>>]

\* The inner loop of merge_scancodes: while code[offset]: ...
\* Evaluates to [err, retval, filled].
RECURSIVE PackKeys(_, _, _, _, _)
PackKeys(retval, filled, code, offset, max_packet_size) ==
    IF offset >= Len(code)
        THEN [err |-> "IndexError", retval |-> retval, filled |-> filled]
    ELSE IF At(code, offset) = 0
        THEN [err |-> "none", retval |-> retval, filled |-> filled]
    ELSE IF filled >= Len(retval)
        THEN [err |-> "IndexError", retval |-> retval, filled |-> filled]
    ELSE LET stored == [retval EXCEPT ![filled + 1] = At(code, offset)] IN
         IF filled + 1 >= max_packet_size
             THEN [err |-> "OverflowError", retval |-> stored, filled |-> filled + 1]
             ELSE PackKeys(stored, filled + 1, code, offset + 1, max_packet_size)

\* The outer loop: for code in byte_arrays, from element i on.
RECURSIVE MergeFrom(_, _, _, _, _)
MergeFrom(retval, filled, arrays, i, max_packet_size) ==
    IF i > Len(arrays) THEN Returned(retval)
    ELSE LET code == arrays[i]
             ored == [retval EXCEPT ![1] = BitOr(retval[1], code[1])]
             packed == PackKeys(ored, filled, code, 2, max_packet_size)
         IN  IF packed.err # "none" THEN Raised(packed.err)
             ELSE MergeFrom(packed.retval, packed.filled, arrays, i + 1,
                            max_packet_size)

\* The merge filling the key slots from byte 3 on.
merge_scancodes_FillsFromByte3(arrays) == MergeFrom(Zeros(8), 3, arrays, 1, 8)

merge_scancodes(arrays) == MergeFrom(Zeros(8), 2, arrays, 1, 8)

(***************************************************************************)
(* keyboard_layouts.py.  A character is a one-character string; the two     *)
(* characters a string cannot hold here stand as their Python escapes:      *)
(* "\\x08" is backspace and "\\x60" is the backtick.  A dict is the         *)
(* sequence of its <<key, value>> items in insertion order.                 *)
(***************************************************************************)
None == -1

\* dict lookups on an item sequence
Keys(items) == { items[i][1] : i \in 1..Len(items) }
Get(items, k) == (CHOOSE i \in 1..Len(items) : items[i][1] = k)
Lookup(items, k) == items[Get(items, k)][2]
\* d[k] = v: replaces the value in place, or appends a new item
Put(items, k, v) ==
    IF k \in Keys(items) THEN [items EXCEPT ![Get(items, k)] = <<k, v>>]
    ELSE Append(items, <<k, v>>)
\* d.pop(k, None)
Pop(items, k) == SelectSeq(items, LAMBDA it : it[1] # k)
Values(items) == [i \in 1..Len(items) |-> items[i][2]]

BASE_LAYOUT_ITEMS ==
    <<
       <<"a", 4>>, <<"b", 5>>, <<"c", 6>>, <<"d", 7>>, <<"e", 8>>, <<"f", 9>>,
       <<"g", 10>>, <<"h", 11>>, <<"i", 12>>, <<"j", 13>>, <<"k", 14>>, <<"l", 15>>,
       <<"m", 16>>, <<"n", 17>>, <<"o", 18>>, <<"p", 19>>, <<"q", 20>>, <<"r", 21>>,
       <<"s", 22>>, <<"t", 23>>, <<"u", 24>>, <<"v", 25>>, <<"w", 26>>, <<"x", 27>>,
       <<"y", 28>>, <<"z", 29>>, <<"1", 30>>, <<"2", 31>>, <<"3", 32>>, <<"4", 33>>,
       <<"5", 34>>, <<"6", 35>>, <<"7", 36>>, <<"8", 37>>, <<"9", 38>>, <<"0", 39>>,
       <<"-", 45>>, <<"=", 46>>, <<"[", 47>>, <<"]", 48>>, <<"#", 50>>, <<";", 51>>,
       <<"'", 52>>, <<"\\x60", 53>>, <<",", 54>>, <<".", 55>>, <<"/", 56>>, <<"\\", 100>>,
       <<"\n", 40>>, <<"\t", 43>>, <<"\\x08", 42>>, <<" ", 44>>, <<"A", 4>>, <<"B", 5>>,
       <<"C", 6>>, <<"D", 7>>, <<"E", 8>>, <<"F", 9>>, <<"G", 10>>, <<"H", 11>>,
       <<"I", 12>>, <<"J", 13>>, <<"K", 14>>, <<"L", 15>>, <<"M", 16>>, <<"N", 17>>,
       <<"O", 18>>, <<"P", 19>>, <<"Q", 20>>, <<"R", 21>>, <<"S", 22>>, <<"T", 23>>,
       <<"U", 24>>, <<"V", 25>>, <<"W", 26>>, <<"X", 27>>, <<"Y", 28>>, <<"Z", 29>>,
       <<"!", 30>>, <<"\"", 31>>, <<"£", 32>>, <<"$", 33>>, <<"%", 34>>, <<"^", 35>>,
       <<"&", 36>>, <<"*", 37>>, <<"(", 38>>, <<")", 39>>, <<"_", 45>>, <<"+", 46>>,
       <<"{", 47>>, <<"}", 48>>, <<"~", 50>>, <<":", 51>>, <<"@", 52>>, <<"¬", 53>>,
       <<"<", 54>>, <<">", 55>>, <<"?", 56>>, <<"|", 100>>
    >>

\* en_US overriding the quote and the at sign only.
LAYOUT_OVERRIDES_QuoteAndAtOnly ==
    << <<"en_GB", <<>> >>,
       <<"en_US", << <<"\"", 52>>, <<"@", 31>> >> >> >>

LAYOUT_OVERRIDES ==
    << <<"en_GB", <<>> >>,
       <<"en_US", << <<"\"", 52>>, <<"@", 31>>, <<"#", 32>>,
                     <<"£", None>>, <<"¬", None>> >> >> >>

\* for char, scancode in overrides.items(): ... from item i on
RECURSIVE ApplyOverrides(_, _, _)
ApplyOverrides(layout, overrides, i) ==
    IF i > Len(overrides) THEN layout
    ELSE LET char == overrides[i][1]
             scancode == overrides[i][2]
         IN  IF scancode = None
                 THEN ApplyOverrides(Pop(layout, char), overrides, i + 1)
                 ELSE ApplyOverrides(Put(layout, char, scancode), overrides, i + 1)

get_layout(layout_name) ==
    IF layout_name \notin Keys(LAYOUT_OVERRIDES)
        THEN Raised("ValueError")
        ELSE Returned(ApplyOverrides(BASE_LAYOUT_ITEMS,
                                     Lookup(LAYOUT_OVERRIDES, layout_name), 1))

(***************************************************************************)
(* utils.py: ascii_to_scancode.                                            *)
(***************************************************************************)
LowerLetters ==
    { "a", "b", "c", "d", "e", "f", "g", "h", "i", "j", "k", "l", "m",
      "n", "o", "p", "q", "r", "s", "t", "u", "v", "w", "x", "y", "z" }
Digits == { "0", "1", "2", "3", "4", "5", "6", "7", "8", "9" }
\* The literal with the hash sign added to it.
UnshiftedLiteral_WithHash ==
    { "\n", "\t", "\\x08", " ", "-", "=", "[", "]", ";", "'", ",", ".", "/",
      "\\", "\\x60", "#" }

\* the characters of the literal tested with `in` at utils.py:84
UnshiftedLiteral ==
    { "\n", "\t", "\\x08", " ", "-", "=", "[", "]", ";", "'", ",", ".", "/",
      "\\", "\\x60" }

islower(k) == k \in LowerLetters
isdigit(k) == k \in Digits

ascii_to_scancode(ascii_char, layout) ==
    LET got == get_layout(layout)
        layout_map == IF got.err = "ValueError" THEN get_layout("en_GB").val
                      ELSE got.val
        non_shift_chars ==
            SelectSeq(layout_map,
                      LAMBDA it : islower(it[1]) \/ isdigit(it[1])
                                  \/ it[1] \in UnshiftedLiteral)
        shift_chars ==
            SelectSeq(layout_map, LAMBDA it : it[1] \notin Keys(non_shift_chars))
    IN  IF ascii_char \in Keys(non_shift_chars)
            THEN build_scancode(Lookup(non_shift_chars, ascii_char), 0)
        ELSE IF ascii_char \in Keys(shift_chars)
            THEN build_scancode(Lookup(shift_chars, ascii_char), 2)
        ELSE build_scancode(0, 0)

(***************************************************************************)
(* Inputs of merge_scancodes: 8-byte scancodes with 0 to 6 key codes, most  *)
(* packed from byte 2 as build_scancode and merge_scancodes produce them,   *)
(* some with a zero byte before a key code as a raw HID report may have.    *)
(***************************************************************************)
Scancode(modifier, keys) ==
    <<modifier, 0>> \o keys \o Zeros(6 - Len(keys))

ScancodeSample ==
    { Scancode(0, <<>>),
      Scancode(1, <<>>), Scancode(2, <<>>), Scancode(34, <<>>),
      Scancode(0, <<4>>), Scancode(2, <<5>>), Scancode(0, <<30>>),
      Scancode(0, <<22, 7>>), Scancode(1, <<6, 4>>),
      Scancode(0, <<8, 9, 10>>), Scancode(16, <<11, 12, 13>>),
      Scancode(0, <<4, 5, 6, 7, 8>>),
      Scancode(64, <<4, 5, 6, 7, 8, 9>>),
      Scancode(0, <<0, 4>>), Scancode(1, <<4, 0, 5>>),
      Scancode(0, <<4, 5, 0, 6, 7, 8>>) }

SeqsUpTo(S, n) == UNION { [1..k -> S] : k \in 0..n }

NotCalled == [err |-> "not called", val |-> <<>>]

InitMerge ==
    /\ byte_arrays \in SeqsUpTo(ScancodeSample, MaxArrays)
    /\ merged = NotCalled
    /\ port = <<>>
    /\ call = [op |-> "none"]
    /\ ret = [err |-> "none"]
    /\ backend = "none"
    /\ darwin = FALSE
    /\ modifier_map = <<>>
    /\ running = FALSE
    /\ pressed = {}
    /\ PortOpen
    /\ NoUsb
    /\ NoListeners

\* result = merge_scancodes(byte_arrays)
Merge ==
    /\ merged = NotCalled
    /\ merged' = merge_scancodes(byte_arrays)
    /\ UNCHANGED <<byte_arrays, port, call, ret, backend, darwin,
                   modifier_map, running, pressed, transport, usbvars,
                   listenvars>>

SpecMerge == InitMerge /\ [][Merge]_vars

(***************************************************************************)
(* SpecBuild: build_scancode applied to a key code and a modifier byte      *)
(* drawn by Init, its result merged on its own, and the result of the merge *)
(* merged on its own again.                                                 *)
(***************************************************************************)
CodeSample == 0..255
ModifierSample == { 0, 1, 2, 3, 16, 34, 128, 255 }

InitBuild ==
    /\ byte_arrays = <<>>
    /\ merged = NotCalled
    /\ port = <<>>
    /\ \E byte \in CodeSample, modifier \in ModifierSample :
          call = [op |-> "build_scancode", byte |-> byte,
                  modifier |-> modifier, merges |-> 0]
    /\ ret = [err |-> "none"]
    /\ backend = "build"
    /\ darwin = FALSE
    /\ modifier_map = <<>>
    /\ running = FALSE
    /\ pressed = {}
    /\ PortOpen
    /\ NoUsb
    /\ NoListeners

NotBuild == <<port, ret, backend, darwin, modifier_map, running, pressed,
              transport, usbvars, listenvars>>

\* merged = merge_scancodes([build_scancode(byte, modifier)])
MergeBuilt ==
    /\ backend = "build"
    /\ call.merges = 0
    /\ byte_arrays' = << build_scancode(call.byte, call.modifier) >>
    /\ merged' = merge_scancodes(byte_arrays')
    /\ call' = [call EXCEPT !.merges = 1]
    /\ UNCHANGED NotBuild

\* merged = merge_scancodes([merged])
MergeAgain ==
    /\ backend = "build"
    /\ call.merges = 1
    /\ merged.err = "none"
    /\ byte_arrays' = << merged.val >>
    /\ merged' = merge_scancodes(byte_arrays')
    /\ call' = [call EXCEPT !.merges = 2]
    /\ UNCHANGED NotBuild

NextBuild == MergeBuilt \/ MergeAgain

SpecBuild == InitBuild /\ [][NextBuild]_vars

(***************************************************************************)
(* communication.py: DataComm.  A call evaluates to its effect:            *)
(*   err      the exception raised, "none" when the call returns           *)
(*   val      the value returned                                           *)
(*   written  the packets handed to port.write, in order                   *)
(***************************************************************************)
DEFAULT_HEAD == <<87, 171>>     \* b"\x57\xab"
DEFAULT_ADDR == <<0>>           \* b"\x00"
DEFAULT_CMD == <<2>>            \* b"\x02"

\* int.from_bytes(b, "big")
RECURSIVE IntFromBytesBig(_)
IntFromBytesBig(b) ==
    IF b = <<>> THEN 0
    ELSE 256 * IntFromBytesBig(SubSeq(b, 1, Len(b) - 1)) + b[Len(b)]

\* written: the packets handed to port.write; when err is SerialException
\* the write of the last one raised and it did not reach the wire.
Effect(e, v, w) == [err |-> e, val |-> v, written |-> w]

\* The packets of an effect that reached the wire.
OnWire(e) ==
    IF e.err = "SerialException"
        THEN SubSeq(e.written, 1, Len(e.written) - 1)
        ELSE e.written

\* What a call or handler with effect e does to the serial port.
Write(e) ==
    /\ port' = port \o OnWire(e)
    /\ write_calls' = write_calls \o e.written

\* send with the LEN byte left out of the checksum.
send_ChecksumSkipsLength(data, head, addr, cmd) ==
    IF Len(head) # 2 \/ Len(addr) # 1 \/ Len(cmd) # 1
        THEN Effect("ValueError", FALSE, <<>>)
    ELSE IF Len(data) > 255
        THEN Effect("OverflowError", FALSE, <<>>)
    ELSE LET length == <<Len(data)>>
             checksum == (SumBytes(head) + IntFromBytesBig(addr)
                          + IntFromBytesBig(cmd) + SumBytes(data)) % 256
             packet == head \o addr \o cmd \o length \o data \o <<checksum>>
         IN  Effect("none", TRUE, <<packet>>)

\* send validating the header only: addr and cmd of any length are framed.
send_ChecksHeadOnly(data, head, addr, cmd) ==
    IF Len(head) # 2
        THEN Effect("ValueError", FALSE, <<>>)
    ELSE IF Len(data) > 255
        THEN Effect("OverflowError", FALSE, <<>>)
    ELSE LET length == <<Len(data)>>
             checksum == (SumBytes(head) + IntFromBytesBig(addr)
                          + IntFromBytesBig(cmd) + IntFromBytesBig(length)
                          + SumBytes(data)) % 256
             packet == head \o addr \o cmd \o length \o data \o <<checksum>>
         IN  Effect("none", TRUE, <<packet>>)

\* send that tries a failed write a second time and then returns False.
send_RetriesThenGivesUp(data, head, addr, cmd) ==
    IF Len(head) # 2 \/ Len(addr) # 1 \/ Len(cmd) # 1
        THEN Effect("ValueError", FALSE, <<>>)
    ELSE IF Len(data) > 255
        THEN Effect("OverflowError", FALSE, <<>>)
    ELSE LET length == <<Len(data)>>
             checksum == (SumBytes(head) + IntFromBytesBig(addr)
                          + IntFromBytesBig(cmd) + IntFromBytesBig(length)
                          + SumBytes(data)) % 256
             packet == head \o addr \o cmd \o length \o data \o <<checksum>>
         IN  IF port_open THEN Effect("none", TRUE, <<packet>>)
             ELSE Effect("none", FALSE, <<packet, packet>>)

send(data, head, addr, cmd) ==
    IF Len(head) # 2 \/ Len(addr) # 1 \/ Len(cmd) # 1
        THEN Effect("ValueError", FALSE, <<>>)
    ELSE IF Len(data) > 255
        \* len(data).to_bytes(1, "little")
        THEN Effect("OverflowError", FALSE, <<>>)
    ELSE LET length == <<Len(data)>>
             checksum == (SumBytes(head) + IntFromBytesBig(addr)
                          + IntFromBytesBig(cmd) + IntFromBytesBig(length)
                          + SumBytes(data)) % 256
             packet == head \o addr \o cmd \o length \o data \o <<checksum>>
         IN  \* self.port.write(packet)
             IF port_open THEN Effect("none", TRUE, <<packet>>)
             ELSE Effect("SerialException", FALSE, <<packet>>)

send_scancode(scancode) ==
    IF Len(scancode) < SCANCODE_LENGTH
        THEN Effect("none", FALSE, <<>>)
        ELSE send(scancode, DEFAULT_HEAD, DEFAULT_ADDR, DEFAULT_CMD)

\* release sending the six key slots only.
release_SixZeros == send(Zeros(6), DEFAULT_HEAD, DEFAULT_ADDR, DEFAULT_CMD)

release == send(Zeros(SCANCODE_LENGTH), DEFAULT_HEAD, DEFAULT_ADDR, DEFAULT_CMD)

(***************************************************************************)
(* The capture backends with a modifier_map: pynputop.py, tkop.py, qtop.py. *)
(* A dict literal is the sequence of its items as written; Dict is the      *)
(* mapping it builds, where a key written twice keeps its last value.       *)
(***************************************************************************)
Dict(items) ==
    [k \in Keys(items) |->
        items[CHOOSE i \in 1..Len(items) :
                 /\ items[i][1] = k
                 /\ \A j \in (i + 1)..Len(items) : items[j][1] # k][2]]

PYNPUT_MODIFIER_ITEMS ==
    <<
       <<"ctrl", 1>>, <<"ctrl_l", 1>>, <<"shift", 2>>, <<"shift_l", 2>>,
       <<"alt", 4>>, <<"alt_l", 4>>, <<"cmd", 8>>, <<"cmd_l", 8>>,
       <<"ctrl_r", 16>>, <<"shift_r", 32>>, <<"alt_r", 64>>, <<"alt_gr", 64>>,
       <<"cmd_r", 128>>
    >>

PYNPUT_KEYS_ITEMS ==
    <<
       <<"enter", 40>>, <<"esc", 41>>, <<"backspace", 42>>, <<"tab", 43>>,
       <<"space", 44>>, <<"caps_lock", 57>>, <<"f1", 58>>, <<"f2", 59>>,
       <<"f3", 60>>, <<"f4", 61>>, <<"f5", 62>>, <<"f6", 63>>,
       <<"f7", 64>>, <<"f8", 65>>, <<"f9", 66>>, <<"f10", 67>>,
       <<"f11", 68>>, <<"f12", 69>>, <<"scroll_lock", 71>>, <<"pause", 72>>,
       <<"insert", 73>>, <<"home", 74>>, <<"page_up", 75>>, <<"delete", 76>>,
       <<"end", 77>>, <<"page_down", 78>>, <<"right", 79>>, <<"left", 80>>,
       <<"down", 81>>, <<"up", 82>>, <<"num_lock", 83>>, <<"media_play_pause", 232>>,
       <<"media_previous", 234>>, <<"media_next", 235>>, <<"media_volume_up", 237>>, <<"media_volume_down", 238>>,
       <<"media_volume_mute", 239>>
    >>

TK_MODIFIER_ITEMS ==
    <<
       <<"Alt_L", 4>>, <<"Alt_R", 64>>, <<"Shift_L", 2>>, <<"Shift_R", 32>>,
       <<"Meta_L", 8>>, <<"Meta_R", 128>>, <<"Control_L", 1>>, <<"Control_L", 1>>,
       <<"Control_R", 16>>
    >>

TK_KEYS_ITEMS ==
    <<
       <<"Up", 82>>, <<"Down", 81>>, <<"Left", 80>>, <<"Right", 79>>,
       <<"Home", 74>>, <<"Prior", 75>>, <<"Delete", 76>>, <<"End", 77>>,
       <<"Next", 78>>, <<"BackSpace", 42>>, <<"F1", 59>>, <<"F2", 60>>,
       <<"F3", 61>>, <<"F4", 62>>, <<"F5", 63>>, <<"F6", 64>>,
       <<"F7", 65>>, <<"F8", 66>>, <<"F9", 67>>, <<"F10", 68>>,
       <<"F11", 87>>, <<"F12", 88>>, <<"space", 44>>, <<"Tab", 43>>,
       <<"Return", 40>>, <<"Caps_Lock", 58>>, <<"Escape", 41>>
    >>

QT_MODIFIER_ITEMS ==
    <<
       <<"Key_Control", 1>>, <<"Key_Shift", 2>>, <<"Key_Alt", 4>>, <<"Key_Super_L", 8>>,
       <<"Key_Meta", 8>>, <<"Key_AltGr", 64>>, <<"Key_Super_R", 128>>
    >>

QT_KEYS_ITEMS ==
    <<
       <<"Key_Enter", 40>>, <<"Key_Return", 40>>, <<"Key_Escape", 41>>, <<"Key_Backspace", 42>>,
       <<"Key_Tab", 43>>, <<"Key_Space", 44>>, <<"Key_CapsLock", 57>>, <<"Key_F1", 58>>,
       <<"Key_F2", 59>>, <<"Key_F3", 60>>, <<"Key_F4", 61>>, <<"Key_F5", 62>>,
       <<"Key_F6", 63>>, <<"Key_F7", 64>>, <<"Key_F8", 65>>, <<"Key_F9", 66>>,
       <<"Key_F10", 67>>, <<"Key_F11", 68>>, <<"Key_F12", 69>>, <<"Key_Print", 70>>,
       <<"Key_SysReq", 70>>, <<"Key_ScrollLock", 71>>, <<"Key_Pause", 72>>, <<"Key_Insert", 73>>,
       <<"0x1000058", 73>>, <<"Key_Home", 74>>, <<"Key_PageUp", 75>>, <<"Key_Delete", 76>>,
       <<"Key_End", 77>>, <<"Key_PageDown", 78>>, <<"Key_Right", 79>>, <<"Key_Left", 80>>,
       <<"Key_Down", 81>>, <<"Key_Up", 82>>, <<"Key_NumLock", 83>>, <<"Key_Menu", 101>>,
       <<"Key_Slash", 84>>, <<"Key_Asterisk", 85>>, <<"Key_Minus", 86>>, <<"Key_Plus", 87>>,
       <<"Key_Return", 88>>, <<"Key_1", 89>>, <<"Key_2", 90>>, <<"Key_3", 91>>,
       <<"Key_4", 92>>, <<"Key_5", 93>>, <<"Key_6", 94>>, <<"Key_7", 95>>,
       <<"Key_8", 96>>, <<"Key_9", 97>>, <<"Key_0", 98>>, <<"Key_Period", 99>>
    >>

PYNPUT_MODIFIER_TO_VALUE == Dict(PYNPUT_MODIFIER_ITEMS)
PYNPUT_KEYS_WITH_CODES == Dict(PYNPUT_KEYS_ITEMS)
TK_MODIFIER_TO_VALUE == Dict(TK_MODIFIER_ITEMS)
TK_KEYS_WITH_CODES == Dict(TK_KEYS_ITEMS)
QT_KEYS_WITH_CODES == Dict(QT_KEYS_ITEMS)

\* qtop.py:27-31: on macOS the values of Key_Control and Key_Meta are swapped
QT_MODIFIER_TO_VALUE(is_darwin) ==
    LET d == Dict(QT_MODIFIER_ITEMS) IN
    IF is_darwin
        THEN [d EXCEPT !["Key_Control"] = d["Key_Meta"],
                       !["Key_Meta"] = d["Key_Control"]]
        ELSE d

\* A modifier scancode that also puts the modifier's value in a key slot.
ModifierScancode_AlsoInKeySlot(value) ==
    [Zeros(8) EXCEPT ![1] = value, ![3] = value]

ModifierScancode(value) == [Zeros(8) EXCEPT ![1] = value]
KeyScancode(value) == [Zeros(8) EXCEPT ![3] = value]

\* The outcome of a handler: the map it leaves, the exception it lets out
\* ("none" when it returns), the packets it wrote, the lines it logged.
Handled(map, err, written, logged) ==
    [map |-> map, err |-> err, written |-> written, logged |-> logged]

Log(level, msg) == [level |-> level, msg |-> msg]

\* A handler that sends the key's own scancode and leaves the held modifiers
\* out of the report.
MergeAndSend_IgnoresModifiers(map, scancode, logged) ==
    LET e == send_scancode(scancode) IN
    Handled(map, e.err, e.written, logged \o <<Log("debug", "scancode")>>)

\* scan_modifiers = merge_scancodes(self.modifier_map.values())
\* scancode = merge_scancodes([scan_modifiers, scancode])
\* ... self.hid_serial_out.send_scancode(bytes(scancode))
\* An exception of merge_scancodes or send_scancode leaves the handler.
MergeAndSend(map, scancode, logged) ==
    LET scan_modifiers == merge_scancodes(Values(map)) IN
    IF scan_modifiers.err # "none"
        THEN Handled(map, scan_modifiers.err, <<>>, logged)
    ELSE LET both == merge_scancodes(<<scan_modifiers.val, scancode>>) IN
         IF both.err # "none" THEN Handled(map, both.err, <<>>, logged)
         ELSE LET e == send_scancode(both.val) IN
              Handled(map, e.err, e.written,
                      logged \o <<Log("debug", "scancode")>>)

\* _nonalphanumeric_key_to_scancode, the same in the three backends but for
\* the tables: [err, val, map].
NonalphanumericKeyToScancode(map, key, modifier_to_value, keys_with_codes) ==
    IF key \in DOMAIN modifier_to_value
        THEN LET scancode == ModifierScancode(modifier_to_value[key])
             IN  [err |-> "none", val |-> scancode, map |-> Put(map, key, scancode)]
    ELSE IF key \in DOMAIN keys_with_codes
        THEN [err |-> "none", val |-> KeyScancode(keys_with_codes[key]),
              map |-> map]
    ELSE [err |-> "KeyError", val |-> Zeros(8), map |-> map]

(***************************************************************************)
(* pynputop.py.  A key is [type, id]: a member of the Key enum             *)
(* ("Key", its name), a KeyCode ("KeyCode", its char, "None" for           *)
(* char=None), or any other object, which has no attribute char.           *)
(***************************************************************************)
PKey(name) == [type |-> "Key", id |-> name]
KeyCode(char) == [type |-> "KeyCode", id |-> char]
Other(text) == [type |-> "str", id |-> text]

\* the Key members of a table, as the keys the dict holds
PynputTable(table) == [k \in { PKey(n) : n \in DOMAIN table } |-> table[k.id]]

PynputOnPress(map, key) ==
    LET na == NonalphanumericKeyToScancode(map, key,
                  PynputTable(PYNPUT_MODIFIER_TO_VALUE),
                  PynputTable(PYNPUT_KEYS_WITH_CODES))
    IN  IF na.err = "none" THEN MergeAndSend(na.map, na.val, <<>>)
        ELSE IF key.type = "KeyCode"
            THEN MergeAndSend(map, ascii_to_scancode(key.id, "en_GB"), <<>>)
        ELSE \* key.char: AttributeError, logged; the zero scancode is sent
             LET e == send_scancode(Zeros(8)) IN
             Handled(map, e.err, e.written,
                     <<Log("error", "Key not found"), Log("debug", "scancode")>>)

PynputOnRelease(map, key) ==
    LET e == release IN
    IF e.err # "none" THEN Handled(map, e.err, e.written, <<>>)
    ELSE IF key = PKey("esc") /\ PKey("ctrl") \in Keys(map)
        THEN Handled(map, "StopException", e.written, <<>>)
    ELSE Handled(Pop(map, key), "none", e.written, <<>>)

(***************************************************************************)
(* tkop.py.  An event is [char, keysym]; a key is a string.                *)
(***************************************************************************)
TkKey(event) == IF event.char = "" THEN event.keysym ELSE event.char

TkOnPress(map, key) ==
    LET na == NonalphanumericKeyToScancode(map, key, TK_MODIFIER_TO_VALUE,
                                           TK_KEYS_WITH_CODES)
    IN  IF na.err = "none" THEN MergeAndSend(na.map, na.val, <<>>)
        ELSE MergeAndSend(map, ascii_to_scancode(key, "en_GB"), <<>>)

\* A release handler that forgets to take the key out of the map.
TkOnRelease_KeepsKey(map, key) == MergeAndSend(map, Zeros(8), <<>>)

TkOnRelease(map, key) == MergeAndSend(Pop(map, key), Zeros(8), <<>>)

(***************************************************************************)
(* qtop.py.  An event is [key, text, chr]: event.key() as the name of the   *)
(* Qt.Key, event.text(), and what chr(qt_key).lower() evaluates to for that *)
(* key ("ValueError" when the key's value is no code point).                *)
(***************************************************************************)
QtOnPress(map, event, is_darwin) ==
    LET qt_key == event.key
        na == NonalphanumericKeyToScancode(map, qt_key,
                  QT_MODIFIER_TO_VALUE(is_darwin), QT_KEYS_WITH_CODES)
    IN  IF na.err = "none" THEN MergeAndSend(na.map, na.val, <<>>)
        ELSE LET fallback == Len(event.text) = 0
                 warned == IF fallback /\ event.chr = "ValueError"
                           THEN <<Log("warning", "Potentially unhandled key")>>
                           ELSE <<>>
                 text == IF ~fallback THEN event.text
                         ELSE IF event.chr = "ValueError" THEN ""
                         ELSE event.chr
             IN  IF Len(text) = 1
                     THEN MergeAndSend(map, ascii_to_scancode(text, "en_GB"), warned)
                     ELSE Handled(map, "none", <<>>,
                                  warned \o <<Log("warning", "Unmapped Qt key")>>)

QtOnRelease(map, event) == MergeAndSend(Pop(map, event.key), Zeros(8), <<>>)

(***************************************************************************)
(* SpecComm: any sequence of send, send_scancode and release calls on one   *)
(* DataComm, with arguments of right and wrong lengths.                     *)
(***************************************************************************)
DataSample ==
    { <<>>, <<255>>, <<255, 255, 1>>,
      <<1, 0, 0, 0, 1>>,                \* a relative-mouse payload
      <<2, 0, 0, 8, 0, 8, 0>>,          \* an absolute-mouse payload
      <<4, 0, 6, 0, 0, 0, 0, 0>> }      \* a keyboard report
HeadSample == { DEFAULT_HEAD, <<87>>, <<87, 171, 0>> }
AddrSample == { DEFAULT_ADDR, <<>>, <<0, 0>> }
CmdSample == { <<2>>, <<>>, <<2, 4>> }
\* Every payload with well-formed framing arguments and the command that
\* goes with it, and a keyboard report with every combination of framing
\* arguments that are too short, right and too long.
SendArgs ==
    ((DataSample \ { <<1, 0, 0, 0, 1>>, <<2, 0, 0, 8, 0, 8, 0>> })
        \X {DEFAULT_HEAD} \X {DEFAULT_ADDR} \X {<<2>>})
    \cup { <<<<1, 0, 0, 0, 1>>, DEFAULT_HEAD, DEFAULT_ADDR, <<5>>>>,
           <<<<2, 0, 0, 8, 0, 8, 0>>, DEFAULT_HEAD, DEFAULT_ADDR, <<4>>>> }
    \cup ({<<4, 0, 6, 0, 0, 0, 0, 0>>} \X HeadSample \X AddrSample \X CmdSample)

ScancodeArgSample ==
    { <<>>,
      <<2, 0, 4, 0, 0, 0, 0>>,             \* 7 bytes
      <<2, 0, 4, 0, 0, 0, 0, 0>>,          \* 8 bytes
      <<1, 0, 41, 0, 0, 0, 0, 0>>,         \* 8 bytes
      <<2, 0, 4, 0, 0, 0, 0, 0, 0>> }      \* 9 bytes

CommCall(op, data, head, addr, cmd) ==
    [op |-> op, data |-> data, head |-> head, addr |-> addr, cmd |-> cmd]

Outcome(effect) == [err |-> effect.err, val |-> effect.val]

InitComm ==
    /\ byte_arrays = <<>>
    /\ merged = NotCalled
    /\ port = <<>>
    /\ call = [op |-> "none"]
    /\ ret = [err |-> "none"]
    /\ backend = "none"
    /\ darwin = FALSE
    /\ modifier_map = <<>>
    /\ running = FALSE
    /\ pressed = {}
    /\ PortOpen
    /\ NoUsb
    /\ NoListeners

NotComm == <<byte_arrays, merged, backend, darwin, modifier_map, running,
             pressed, port_open, usbvars, listenvars>>

Send ==
    /\ backend = "none"
    /\ Len(write_calls) < MaxWrites
    /\ \E args \in SendArgs :
          LET data == args[1]
              head == args[2]
              addr == args[3]
              cmd == args[4]
              e == send(data, head, addr, cmd)
          IN
          /\ call' = CommCall("send", data, head, addr, cmd)
          /\ Write(e)
          /\ ret' = Outcome(e)
    /\ UNCHANGED NotComm

SendScancode ==
    /\ backend = "none"
    /\ Len(write_calls) < MaxWrites
    /\ \E scancode \in ScancodeArgSample :
          LET e == send_scancode(scancode) IN
          /\ call' = CommCall("send_scancode", scancode, DEFAULT_HEAD,
                              DEFAULT_ADDR, DEFAULT_CMD)
          /\ Write(e)
          /\ ret' = Outcome(e)
    /\ UNCHANGED NotComm

Release ==
    /\ backend = "none"
    /\ Len(write_calls) < MaxWrites
    /\ LET e == release IN
          /\ call' = CommCall("release", <<>>, DEFAULT_HEAD, DEFAULT_ADDR,
                              DEFAULT_CMD)
          /\ Write(e)
          /\ ret' = Outcome(e)
    /\ UNCHANGED NotComm

NextComm == Send \/ SendScancode \/ Release

SpecComm == InitComm /\ [][NextComm]_vars

(***************************************************************************)
(* SpecBackend: one backend, chosen by Init, handles any sequence of key    *)
(* presses and releases: modifiers, named keys, characters with and without *)
(* Shift, and keys it cannot map.                                           *)
(***************************************************************************)
Backends == { "pynput", "qt", "tk" }

PynputKeySample ==
    { PKey("ctrl"), PKey("ctrl_l"), PKey("ctrl_r"), PKey("shift_r"), PKey("esc"),
      KeyCode("a"), KeyCode("A"),
      KeyCode("None"),                  \* a KeyCode whose char is None
      KeyCode("\r"),                    \* a character no layout holds
      Other("I_AM_NOT_A_REAL_KEY") }

TkEvent(char, keysym) == [char |-> char, keysym |-> keysym]
TkEventSample ==
    { TkEvent("", "Shift_L"), TkEvent("", "Control_L"), TkEvent("", "Alt_R"),
      TkEvent("", "Up"), TkEvent("a", "a"), TkEvent("A", "A"),
      TkEvent("\r", "Return"),          \* Return arrives as the character \r
      TkEvent("", "F13") }              \* a keysym in neither table

QtEvent(key, text, chr) == [key |-> key, text |-> text, chr |-> chr]
QtEventSample ==
    { QtEvent("Key_Control", "", "ValueError"),
      QtEvent("Key_Shift", "", "ValueError"),
      QtEvent("Key_Meta", "", "ValueError"),
      QtEvent("Key_Escape", "", "ValueError"),
      QtEvent("Key_A", "a", "a"), QtEvent("Key_A", "A", "a"),
      QtEvent("Key_A", "", "a"),        \* a key combination: no text
      QtEvent("Key_M", "\r", "m"),      \* Ctrl+M: a control character
      QtEvent("Key_F13", "", "ValueError"),
      QtEvent("Key_unknown", "ab", "ValueError") }

\* the keys a backend's MODIFIER_TO_VALUE holds
ModifierKeys(b) ==
    IF b = "pynput" THEN DOMAIN PynputTable(PYNPUT_MODIFIER_TO_VALUE)
    ELSE IF b = "tk" THEN DOMAIN TK_MODIFIER_TO_VALUE
    ELSE DOMAIN QT_MODIFIER_TO_VALUE(FALSE)

KeyEvent(op, key, event) == [op |-> op, key |-> key, event |-> event]

Result(h) == [err |-> h.err, logged |-> h.logged]

InitBackend ==
    /\ byte_arrays = <<>>
    /\ merged = NotCalled
    /\ port = <<>>
    /\ call = [op |-> "none"]
    /\ ret = [err |-> "none", logged |-> <<>>]
    /\ backend \in Backends
    /\ darwin \in (IF backend = "qt" THEN BOOLEAN ELSE {FALSE})
    /\ modifier_map = <<>>
    /\ running = TRUE
    /\ pressed = {}
    /\ PortOpen
    /\ NoUsb
    /\ NoListeners

NotBackend == <<byte_arrays, merged, backend, darwin, port_open, usbvars,
                listenvars>>

\* What every handler leaves behind.
Deliver(op, key, event, h) ==
    /\ call' = KeyEvent(op, key, event)
    /\ modifier_map' = h.map
    /\ Write(h)
    /\ ret' = Result(h)
    /\ running' = (h.err = "none")
    /\ pressed' = IF op = "release" THEN pressed \ {key}
                  ELSE IF key \in ModifierKeys(backend) THEN pressed \cup {key}
                  ELSE pressed
    /\ UNCHANGED NotBackend

Ready(b) == backend = b /\ running /\ Len(write_calls) < MaxReports

PynputPress ==
    /\ Ready("pynput")
    /\ \E key \in PynputKeySample :
          Deliver("press", key, key, PynputOnPress(modifier_map, key))

PynputRelease ==
    /\ Ready("pynput")
    /\ \E key \in PynputKeySample :
          Deliver("release", key, key, PynputOnRelease(modifier_map, key))

\* parse_key with a KeyPress event
TkPress ==
    /\ Ready("tk")
    /\ \E event \in TkEventSample :
          Deliver("press", TkKey(event), event,
                  TkOnPress(modifier_map, TkKey(event)))

\* parse_key with a KeyRelease event
TkRelease ==
    /\ Ready("tk")
    /\ \E event \in TkEventSample :
          Deliver("release", TkKey(event), event,
                  TkOnRelease(modifier_map, TkKey(event)))

\* parse_key with a KeyPress event
QtPress ==
    /\ Ready("qt")
    /\ \E event \in QtEventSample :
          Deliver("press", event.key, event,
                  QtOnPress(modifier_map, event, darwin))

\* parse_key with a KeyRelease event
QtRelease ==
    /\ Ready("qt")
    /\ \E event \in QtEventSample :
          Deliver("release", event.key, event,
                  QtOnRelease(modifier_map, event))

NextBackend ==
    \/ PynputPress \/ PynputRelease
    \/ TkPress \/ TkRelease
    \/ QtPress \/ QtRelease

SpecBackend == InitBackend /\ [][NextBackend]_vars

(***************************************************************************)
(* SpecAgree: one key, pressed with no modifier held, in two backends that  *)
(* both have it in a table; each press handler is given the key under the   *)
(* name its own table has for it.  sys.platform is not "darwin".            *)
(***************************************************************************)
SameKey(pynput, qt, tk) == [pynput |-> pynput, qt |-> qt, tk |-> tk]

\* The modifiers and named keys that more than one table holds; "" where a
\* backend's tables do not have the key.
SharedKeys ==
    { SameKey("ctrl_l", "Key_Control", "Control_L"),
      SameKey("shift_l", "Key_Shift", "Shift_L"),
      SameKey("alt_l", "Key_Alt", "Alt_L"),
      SameKey("cmd_l", "Key_Meta", "Meta_L"),
      SameKey("ctrl_r", "", "Control_R"),
      SameKey("shift_r", "", "Shift_R"),
      SameKey("alt_gr", "Key_AltGr", "Alt_R"),
      SameKey("cmd_r", "Key_Super_R", "Meta_R"),
      SameKey("enter", "Key_Return", "Return"),
      SameKey("esc", "Key_Escape", "Escape"),
      SameKey("backspace", "Key_Backspace", "BackSpace"),
      SameKey("tab", "Key_Tab", "Tab"),
      SameKey("space", "Key_Space", "space"),
      SameKey("caps_lock", "Key_CapsLock", "Caps_Lock"),
      SameKey("f1", "Key_F1", "F1"), SameKey("f2", "Key_F2", "F2"),
      SameKey("f3", "Key_F3", "F3"), SameKey("f4", "Key_F4", "F4"),
      SameKey("f5", "Key_F5", "F5"), SameKey("f6", "Key_F6", "F6"),
      SameKey("f7", "Key_F7", "F7"), SameKey("f8", "Key_F8", "F8"),
      SameKey("f9", "Key_F9", "F9"), SameKey("f10", "Key_F10", "F10"),
      SameKey("f11", "Key_F11", "F11"), SameKey("f12", "Key_F12", "F12"),
      SameKey("up", "Key_Up", "Up"), SameKey("down", "Key_Down", "Down"),
      SameKey("left", "Key_Left", "Left"),
      SameKey("right", "Key_Right", "Right"),
      SameKey("home", "Key_Home", "Home"), SameKey("end", "Key_End", "End"),
      SameKey("page_up", "Key_PageUp", "Prior"),
      SameKey("page_down", "Key_PageDown", "Next"),
      SameKey("delete", "Key_Delete", "Delete"),
      SameKey("insert", "Key_Insert", "") }

\* the press handler of backend b, on an empty modifier_map
PressIn(b, key) ==
    IF b = "pynput" THEN PynputOnPress(<<>>, PKey(key[b]))
    ELSE IF b = "tk" THEN TkOnPress(<<>>, key[b])
    ELSE QtOnPress(<<>>, QtEvent(key[b], "", "ValueError"), darwin)

InitAgree ==
    /\ byte_arrays = <<>>
    /\ merged = NotCalled
    /\ port = <<>>
    /\ \E key \in SharedKeys, first \in Backends, second \in Backends :
          /\ first # second
          /\ key[first] # ""
          /\ key[second] # ""
          /\ call = [op |-> "none", key |-> key, first |-> first,
                     second |-> second]
    /\ ret = [err |-> "not called", first |-> <<>>, second |-> <<>>]
    /\ backend = "agree"
    /\ darwin = FALSE
    /\ modifier_map = <<>>
    /\ running = FALSE
    /\ pressed = {}
    /\ PortOpen
    /\ NoUsb
    /\ NoListeners

NotAgree == <<byte_arrays, merged, port, backend, darwin, modifier_map,
              running, pressed, transport, usbvars, listenvars>>

\* the first backend handles the press: ret.first is what it wrote
PressInFirst ==
    /\ backend = "agree"
    /\ call.op = "none"
    /\ LET h == PressIn(call.first, call.key) IN
          /\ call' = [call EXCEPT !.op = "first"]
          /\ ret' = [err |-> h.err, first |-> h.written, second |-> <<>>]
    /\ UNCHANGED NotAgree

\* the second backend handles the press of the same key
PressInSecond ==
    /\ backend = "agree"
    /\ call.op = "first"
    /\ LET h == PressIn(call.second, call.key) IN
          /\ call' = [call EXCEPT !.op = "second"]
          /\ ret' = [ret EXCEPT !.err = IF @ = "none" THEN h.err ELSE @,
                                !.second = h.written]
    /\ UNCHANGED NotAgree

NextAgree == PressInFirst \/ PressInSecond

SpecAgree == InitAgree /\ [][NextAgree]_vars

(***************************************************************************)
(* utils.py: scancode_to_ascii.  Python's None is the string "None".        *)
(***************************************************************************)
HID_TO_ASCII_ITEMS ==
    <<
       <<4, "a">>, <<5, "b">>, <<6, "c">>, <<7, "d">>, <<8, "e">>, <<9, "f">>,
       <<10, "g">>, <<11, "h">>, <<12, "i">>, <<13, "j">>, <<14, "k">>,
       <<15, "l">>, <<16, "m">>, <<17, "n">>, <<18, "o">>, <<19, "p">>,
       <<20, "q">>, <<21, "r">>, <<22, "s">>, <<23, "t">>, <<24, "u">>,
       <<25, "v">>, <<26, "w">>, <<27, "x">>, <<28, "y">>, <<29, "z">>,
       <<30, "1">>, <<31, "2">>, <<32, "3">>, <<33, "4">>, <<34, "5">>,
       <<35, "6">>, <<36, "7">>, <<37, "8">>, <<38, "9">>, <<39, "0">>,
       <<45, "-">>, <<46, "=">>, <<47, "[">>, <<48, "]">>, <<49, "#">>,
       <<50, "#">>, <<51, ";">>, <<52, "'">>, <<53, "\\x60">>, <<54, ",">>,
       <<55, ".">>, <<56, "/">>, <<57, "CAPSLOCK">>, <<41, "ESC">>,
       <<79, "→">>, <<80, "←">>, <<81, "↓">>, <<82, "↑">>, <<73, "Ins">>,
       <<74, "Home">>, <<75, "PgUp">>, <<76, "Del">>, <<77, "End">>,
       <<78, "PgDn">>, <<40, "\n">>, <<44, " ">>, <<43, "\t">>,
       <<42, "\\x08">>, <<100, "\\">>
    >>

MODIFIER_ASCII_UPDATE_ITEMS ==
    <<
       <<4, "A">>, <<5, "B">>, <<6, "C">>, <<7, "D">>, <<8, "E">>, <<9, "F">>,
       <<10, "G">>, <<11, "H">>, <<12, "I">>, <<13, "J">>, <<14, "K">>,
       <<15, "L">>, <<16, "M">>, <<17, "N">>, <<18, "O">>, <<19, "P">>,
       <<20, "Q">>, <<21, "R">>, <<22, "S">>, <<23, "T">>, <<24, "U">>,
       <<25, "V">>, <<26, "W">>, <<27, "X">>, <<28, "Y">>, <<29, "Z">>,
       <<30, "!">>, <<31, "\"">>, <<32, "#">>, <<33, "$">>, <<34, "%">>,
       <<35, "^">>, <<36, "&">>, <<37, "*">>, <<38, "(">>, <<39, ")">>,
       <<45, "_">>, <<46, "+">>, <<47, "{">>, <<48, "}">>, <<49, "~">>,
       <<50, "~">>, <<51, ":">>, <<52, "@">>, <<53, "¬">>, <<54, "<">>,
       <<55, ">">>, <<56, "?">>, <<100, "|">>
    >>

hid_to_ascii_mapping == Dict(HID_TO_ASCII_ITEMS)
\* hid_to_ascii_mapping.copy() updated with the shifted characters
modifier_ascii_mapping == Dict(HID_TO_ASCII_ITEMS \o MODIFIER_ASCII_UPDATE_ITEMS)

\* while index < len(scancode) <= 8: key = scancode[index]; stop at key > 0
RECURSIVE FirstKey(_, _, _)
FirstKey(scancode, index, key) ==
    IF index < Len(scancode) /\ Len(scancode) <= 8
        THEN IF At(scancode, index) > 0 THEN At(scancode, index)
             ELSE FirstKey(scancode, index + 1, At(scancode, index))
        ELSE key

scancode_to_ascii(scancode, raise_err) ==
    LET key == FirstKey(scancode, 2, 0) IN
    IF Len(scancode) = 0 THEN Raised("IndexError")
    ELSE LET mapping == IF BitAnd(At(scancode, 0), 34) # 0
                        THEN modifier_ascii_mapping
                        ELSE hid_to_ascii_mapping
         IN  IF key \in DOMAIN mapping THEN Returned(mapping[key])
             ELSE IF raise_err THEN Raised("KeyError")
             ELSE Returned("None")

(***************************************************************************)
(* pyusbop.py.  What endpoint.read does is a record: the report it returns  *)
(* or the USBError it raises, with its errno.                               *)
(***************************************************************************)
Report(data) == [kind |-> "data", data |-> data, errno |-> 0]
USBError(errno) == [kind |-> "USBError", data |-> <<>>, errno |-> errno]

\* The outcome of _parse_key: exception or return value, the debounce it
\* leaves, the arguments it gave to send_scancode, the packets handed to
\* port.write, the lines logged.
Parsed(err, val, deb, sent, written, logged) ==
    [err |-> err, val |-> val, debounce |-> deb, sent |-> sent,
     written |-> written, logged |-> logged]

\* An exit test that takes Ctrl+C for the exit sequence.
IsCtrlEsc_OnCtrlC(data_in) == At(data_in, 0) = 1 /\ At(data_in, 2) = 6

\* if data_in[0] == 0x1 and data_in[2] == 0x29:  # Ctrl+ESC
IsCtrlEsc(data_in) == At(data_in, 0) = 1 /\ At(data_in, 2) = 41

_parse_key(read, deb) ==
    IF read.kind = "USBError"
        THEN IF read.errno = 60
                 THEN Parsed("none", TRUE, deb, <<>>, <<>>,
                             <<Log("debug", "Operation timed out")>>)
                 ELSE Parsed("USBError", FALSE, deb, <<>>, <<>>, <<>>)
    ELSE LET data_in == read.data IN
    IF Len(data_in) = 0 \/ (At(data_in, 0) = 1 /\ Len(data_in) < 3)
        THEN Parsed("IndexError", FALSE, deb, <<>>, <<>>, <<>>)
    ELSE LET ctrl_c == IF At(data_in, 0) = 1 /\ At(data_in, 2) = 6 /\ deb # "c"
                       THEN <<Log("warning", "Ctrl+C passed through")>>
                       ELSE <<>>
         IN
    IF IsCtrlEsc(data_in)
        THEN Parsed("none", FALSE, deb, <<>>, <<>>,
                    ctrl_c \o <<Log("warning", "Ctrl+ESC escape sequence detected")>>)
    ELSE LET key == scancode_to_ascii(data_in, FALSE).val
             deb2 == IF key # deb /\ key # "None" THEN key
                     ELSE IF key = "None" THEN "None"
                     ELSE deb
             e == send_scancode(data_in)
         IN  Parsed(e.err, e.val, deb2, <<data_in>>, e.written,
                    ctrl_c \o <<Log("debug", "scancode")>>)

(***************************************************************************)
(* SpecUsb: PyUSBOp.run on the first keyboard endpoint found.  One step     *)
(* starts run (up to the loop), one step is an iteration of the loop: a     *)
(* read of the endpoint, _parse_key, and, when the loop ends, the except    *)
(* and finally clauses.  The serial port may stop accepting writes.         *)
(***************************************************************************)
MaxPolls == 3       \* SpecUsb: reports read before the polling stops

\* What discovery left in self.usb_endpoints: nothing, or one keyboard,
\* {"vid:pid": (endpoint, dev, interface_number)}.
OneKeyboard ==
    << << <<1133, 49948>>, <<[dir |-> "in", type |-> "intr"], 1, 0>> >> >>
UsbEndpointsSample == { <<>>, OneKeyboard }

ReportSample ==
    { Zeros(8),
      <<1, 0, 0, 0, 0, 0, 0, 0>>,       \* left Ctrl
      <<1, 0, 41, 0, 0, 0, 0, 0>>,      \* left Ctrl + Esc
      <<1, 0, 6, 0, 0, 0, 0, 0>>,       \* left Ctrl + c
      <<16, 0, 41, 0, 0, 0, 0, 0>>,     \* right Ctrl + Esc
      <<3, 0, 41, 0, 0, 0, 0, 0>>,      \* left Ctrl + left Shift + Esc
      <<0, 0, 41, 0, 0, 0, 0, 0>>,      \* Esc alone
      <<2, 0, 4, 0, 0, 0, 0, 0>>,       \* left Shift + a
      <<0, 0, 4, 0>>,                   \* a report shorter than 8 bytes
      <<1, 0>> }                        \* a report shorter than 3 bytes

\* 60 and 110 are ETIMEDOUT on macOS and on Linux, 19 is ENODEV
ReadSample ==
    { Report(d) : d \in ReportSample } \cup { USBError(n) : n \in {60, 110, 19} }

InitUsb ==
    /\ byte_arrays = <<>>
    /\ merged = NotCalled
    /\ port = <<>>
    /\ call = [op |-> "none"]
    /\ ret = [err |-> "none", val |-> TRUE, logged |-> <<>>]
    /\ backend = "usb"
    /\ darwin = FALSE
    /\ modifier_map = <<>>
    /\ running = FALSE
    /\ pressed = {}
    /\ port_open = TRUE
    /\ write_calls = <<>>
    /\ usb_pc = "idle"
    /\ driver_active \in BOOLEAN
    /\ detached = FALSE
    /\ disposed = FALSE
    /\ debounce = "None"
    /\ reads = <<>>
    /\ forwarded = <<>>
    /\ usb_endpoints \in UsbEndpointsSample
    /\ NoListeners

NotUsb == <<byte_arrays, merged, backend, darwin, modifier_map, running,
            pressed, listenvars>>

\* A finally clause that disposes the resources and leaves the driver as it is.
Cleanup_DisposeOnly ==
    /\ disposed' = TRUE
    /\ UNCHANGED driver_active

\* finally: dispose_resources(dev); dev.attach_kernel_driver(interface_number)
Cleanup ==
    /\ disposed' = TRUE
    /\ driver_active' = TRUE

\* run() up to its loop.  detach_kernel_driver may raise USBError (errno 13
\* without superuser rights), which run logs before its finally clause.
UsbStart ==
    /\ usb_pc = "idle"
    /\ call' = [op |-> "run"]
    /\ debounce' = IF usb_endpoints # <<>> THEN "None" ELSE debounce
    /\ \/ /\ usb_endpoints # <<>>
          /\ usb_pc' = "loop"
          /\ driver_active' = FALSE
          /\ detached' = driver_active
          /\ ret' = [err |-> "none", val |-> TRUE, logged |-> <<>>]
          /\ UNCHANGED disposed
       \/ /\ usb_endpoints # <<>>
          /\ driver_active
          /\ usb_pc' = "returned"
          /\ Cleanup
          /\ ret' = [err |-> "none", val |-> FALSE,
                     logged |-> <<Log("error", "USBError"),
                                  Log("error", "not running as superuser")>>]
          /\ UNCHANGED detached
       \* [*self.usb_endpoints.values()][0] raises IndexError, which
       \* except USBError does not catch; finally: dispose_resources(None),
       \* which returns or raises in its turn, and dev is None: no attach
       \/ /\ usb_endpoints = <<>>
          /\ usb_pc' = "raised"
          /\ disposed' = TRUE
          /\ \E e \in { "IndexError", "AttributeError" } :
                ret' = [err |-> e, val |-> FALSE, logged |-> <<>>]
          /\ UNCHANGED <<driver_active, detached>>
    /\ UNCHANGED <<port, transport, reads, forwarded, usb_endpoints, NotUsb>>

\* while self._sleep_interval(self._parse_key, endpoint=endpoint): pass
UsbPoll ==
    /\ usb_pc = "loop"
    /\ Len(reads) < MaxPolls
    /\ \E read \in ReadSample :
          LET r == _parse_key(read, debounce) IN
          /\ call' = [op |-> "poll", read |-> read]
          /\ reads' = IF read.kind = "data" THEN Append(reads, read.data)
                       ELSE reads
          /\ forwarded' = forwarded \o r.sent
          /\ debounce' = r.debounce
          /\ Write(r)
          /\ IF r.err = "none" /\ r.val
                 THEN /\ usb_pc' = "loop"
                      /\ ret' = [err |-> "none", val |-> TRUE, logged |-> r.logged]
                      /\ UNCHANGED <<driver_active, disposed>>
             ELSE IF r.err \in { "none", "USBError" }
                 \* the loop ends, or except USBError logs the error
                 THEN /\ usb_pc' = "returned"
                      /\ ret' = [err |-> "none", val |-> FALSE,
                                 logged |-> r.logged \o
                                     (IF r.err = "USBError"
                                      THEN <<Log("error", "USBError")>>
                                      ELSE <<>>)]
                      /\ Cleanup
             ELSE /\ usb_pc' = "raised"
                  /\ ret' = [err |-> r.err, val |-> FALSE, logged |-> r.logged]
                  /\ Cleanup
    /\ UNCHANGED <<port_open, detached, usb_endpoints, NotUsb>>

\* The serial port stops accepting writes (the adapter is unplugged).
PortFails ==
    /\ usb_pc \in { "none", "loop" }
    /\ port_open
    /\ port_open' = FALSE
    /\ call' = [op |-> "port fails"]
    /\ UNCHANGED <<port, write_calls, ret, usbvars, NotUsb>>

NextUsb == UsbStart \/ UsbPoll \/ PortFails

SpecUsb == InitUsb /\ [][NextUsb]_vars

(***************************************************************************)
(* mouseop.py.  Coordinates and deltas are integers.                        *)
(***************************************************************************)
\* The two bytes with the high byte first.
ToBytesLittle2_HighByteFirst(n) ==
    IF n < 0 \/ n > 65535 THEN Raised("OverflowError")
    ELSE Returned(<<n \div 256, n % 256>>)

\* n.to_bytes(2, "little")
ToBytesLittle2(n) ==
    IF n < 0 \/ n > 65535 THEN Raised("OverflowError")
    ELSE Returned(<<n % 256, n \div 256>>)

\* The two bytes of the magnitude, with the top bit set for a negative n.
ToBytesBigSigned2_SignAndMagnitude(n) ==
    IF n < -32768 \/ n > 32767 THEN Raised("OverflowError")
    ELSE LET u == IF n < 0 THEN 32768 - n ELSE n
         IN  Returned(<<(u \div 256) % 256, u % 256>>)

\* n.to_bytes(2, "big", signed=True)
ToBytesBigSigned2(n) ==
    IF n < -32768 \/ n > 32767 THEN Raised("OverflowError")
    ELSE LET u == n % 65536 IN Returned(<<u \div 256, u % 256>>)

\* MouseButton with the middle button numbered 3.
MouseButton_MiddleIsThree ==
    [RELEASE |-> <<0>>, LEFT |-> <<1>>, RIGHT |-> <<2>>, MIDDLE |-> <<3>>]

\* MouseButton: the value of each member
MouseButton == [RELEASE |-> <<0>>, LEFT |-> <<1>>, RIGHT |-> <<2>>, MIDDLE |-> <<4>>]

\* data.ljust(7, b"\x00"), or data[:7] when longer
Fit7(data) ==
    IF Len(data) > 7 THEN SubSeq(data, 1, 7) ELSE data \o Zeros(7 - Len(data))

\* if d < 0: d = abs(4096 + d)
Fold(d) ==
    IF d < 0 THEN (IF 4096 + d < 0 THEN -(4096 + d) ELSE 4096 + d) ELSE d

on_move(x, y, width, height) ==
    IF width = 0 \/ height = 0 THEN Effect("ZeroDivisionError", FALSE, <<>>)
    ELSE LET dx == Fold((4096 * x) \div width)
             dy == Fold((4096 * y) \div height)
             bx == ToBytesLittle2(dx)
             by == ToBytesLittle2(dy)
         IN  IF bx.err # "none" THEN Effect(bx.err, FALSE, <<>>)
             ELSE IF by.err # "none" THEN Effect(by.err, FALSE, <<>>)
             ELSE send(Fit7(<<2, 0>> \o bx.val \o by.val),
                       DEFAULT_HEAD, DEFAULT_ADDR, <<4>>)

on_click(x, y, button, down) ==
    send(<<1>> \o (IF down THEN MouseButton[button] ELSE <<0>>) \o <<0, 0>> \o <<0>>,
         DEFAULT_HEAD, DEFAULT_ADDR, <<5>>)

on_scroll(x, y, dx, dy) ==
    LET bx == ToBytesBigSigned2(dx)
        by == ToBytesBigSigned2(dy)
    IN  IF bx.err # "none" THEN Effect(bx.err, FALSE, <<>>)
        ELSE IF by.err # "none" THEN Effect(by.err, FALSE, <<>>)
        ELSE send(<<1>> \o bx.val \o by.val, DEFAULT_HEAD, DEFAULT_ADDR, <<5>>)

(***************************************************************************)
(* SpecFault: the DataComm calls, the key handlers of the capture backends, *)
(* the mouse handlers and the USB passthrough loop, each on a serial port   *)
(* that may stop accepting writes at any moment.                            *)
(***************************************************************************)
MaxMouse == 2       \* SpecFault: mouse events handled before they stop

MoveSample == { <<960, 540, 1920, 1080>>, <<-100, 0, 1920, 1080>> }
ClickSample == { <<"LEFT", TRUE>>, <<"LEFT", FALSE>>, <<"MIDDLE", TRUE>> }
ScrollSample == { <<0, -1>>, <<1, 0>>, <<0, 40000>> }

MouseCall(op, args) == [op |-> op, args |-> args]

InitFault ==
    /\ byte_arrays = <<>>
    /\ merged = NotCalled
    /\ port = <<>>
    /\ call = [op |-> "none"]
    /\ backend \in { "none", "mouse", "usb" } \cup Backends
    /\ ret = IF backend \in Backends THEN [err |-> "none", logged |-> <<>>]
             ELSE IF backend = "usb"
                 THEN [err |-> "none", val |-> TRUE, logged |-> <<>>]
             ELSE [err |-> "none"]
    /\ darwin = FALSE
    /\ modifier_map = <<>>
    /\ running = (backend \in Backends)
    /\ pressed = {}
    /\ port_open = TRUE
    /\ write_calls = <<>>
    /\ usb_pc = IF backend = "usb" THEN "idle" ELSE "none"
    /\ driver_active = TRUE
    /\ detached = FALSE
    /\ disposed = FALSE
    /\ debounce = "None"
    /\ reads = <<>>
    /\ forwarded = <<>>
    /\ usb_endpoints = (IF backend = "usb" THEN OneKeyboard ELSE <<>>)
    /\ NoListeners

MouseReady == backend = "mouse" /\ Len(write_calls) < MaxMouse

MouseMove ==
    /\ MouseReady
    /\ \E a \in MoveSample :
          LET e == on_move(a[1], a[2], a[3], a[4]) IN
          /\ call' = MouseCall("on_move", a)
          /\ Write(e)
          /\ ret' = Outcome(e)
    /\ UNCHANGED NotComm

MouseClick ==
    /\ MouseReady
    /\ \E a \in ClickSample :
          LET e == on_click(0, 0, a[1], a[2]) IN
          /\ call' = MouseCall("on_click", a)
          /\ Write(e)
          /\ ret' = Outcome(e)
    /\ UNCHANGED NotComm

MouseScroll ==
    /\ MouseReady
    /\ \E a \in ScrollSample :
          LET e == on_scroll(0, 0, a[1], a[2]) IN
          /\ call' = MouseCall("on_scroll", a)
          /\ Write(e)
          /\ ret' = Outcome(e)
    /\ UNCHANGED NotComm

NextMouse == MouseMove \/ MouseClick \/ MouseScroll

NextFault == PortFails \/ NextComm \/ NextBackend \/ NextUsb \/ NextMouse

SpecFault == InitFault /\ [][NextFault]_vars

(***************************************************************************)
(* pyusbop.py: get_usb_endpoints.  A device found by usb.core.find is       *)
(*   config     what get_active_configuration() does: "ok", or the error it *)
(*              raises ("AttributeError", "TypeError", "USBError")          *)
(*   named      the manufacturer and product strings can be read            *)
(*   cls, sub   bDeviceClass, bDeviceSubClass                               *)
(*   vid, pid   idVendor, idProduct                                         *)
(*   interfaces the interfaces of the active configuration, in order, each  *)
(*              with its number, class, subclass, protocol and endpoints    *)
(* The result maps the key vid:pid, here <<vid, pid>>, to the endpoint, the *)
(* device (its position in the list found) and the interface number.        *)
(***************************************************************************)
Endpoint(dir, type) == [dir |-> dir, type |-> type]
Interface(number, cls, sub, proto, endpoints) ==
    [number |-> number, cls |-> cls, sub |-> sub, proto |-> proto,
     endpoints |-> endpoints]
Device(config, named, cls, sub, vid, pid, interfaces) ==
    [config |-> config, named |-> named, cls |-> cls, sub |-> sub,
     vid |-> vid, pid |-> pid, interfaces |-> interfaces]

NoDescriptor == [dir |-> "none", type |-> "none"]

\* find_descriptor(desc, ...): the first of the items at the positions
\* that match, or None
FindDescriptor(items, matching) ==
    IF matching = {} THEN NoDescriptor
    ELSE items[CHOOSE i \in matching : \A j \in matching : i <= j]

Found(err, val, logged) == [err |-> err, val |-> val, logged |-> logged]

\* bInterfaceClass == 0x3 and bInterfaceSubClass == 0x1 and
\* bInterfaceProtocol == 0x1
IsBootKeyboard(intf) == intf.cls = 3 /\ intf.sub = 1 /\ intf.proto = 1

\* for device in devices: ... from device i on, with the endpoints found
\* and the lines logged so far
RECURSIVE ScanDevices(_, _, _, _)
ScanDevices(devices, i, endpoints, logged) ==
    IF i > Len(devices) THEN Found("none", endpoints, logged)
    ELSE LET device == devices[i] IN
         IF device.config \in { "AttributeError", "TypeError" }
             THEN ScanDevices(devices, i + 1, endpoints,
                              Append(logged, "Skipping non-device"))
         ELSE IF device.config = "USBError"
             \* the handler reads device.manufacturer and device.product
             THEN IF device.named
                      THEN ScanDevices(devices, i + 1, endpoints,
                                       Append(logged, "USB error"))
                      ELSE Found("USBError", <<>>, logged)
         ELSE IF device.cls # 0 \/ device.sub # 0
             THEN ScanDevices(devices, i + 1, endpoints, logged)
         ELSE IF device.interfaces = <<>>
             \* list(cfg)[0]
             THEN Found("IndexError", <<>>, logged)
         ELSE LET interface_number == device.interfaces[1].number
                  \* bInterfaceNumber=interface_number
                  intf == FindDescriptor(device.interfaces,
                              { k \in 1..Len(device.interfaces) :
                                  device.interfaces[k].number = interface_number })
                  \* custom_match: ENDPOINT_IN and ENDPOINT_TYPE_INTR
                  endpoint == FindDescriptor(intf.endpoints,
                                  { k \in 1..Len(intf.endpoints) :
                                      /\ intf.endpoints[k].dir = "in"
                                      /\ intf.endpoints[k].type = "intr" })
              IN  IF endpoint # NoDescriptor /\ IsBootKeyboard(intf)
                      THEN ScanDevices(devices, i + 1,
                               Put(endpoints, <<device.vid, device.pid>>,
                                   <<endpoint, i, interface_number>>),
                               Append(logged, "Found USB Keyboard"))
                      ELSE ScanDevices(devices, i + 1, endpoints, logged)

\* devices: what usb_core_find(find_all=True) returned, None as <<>>
get_usb_endpoints(devices) == ScanDevices(devices, 1, <<>>, <<>>)

(***************************************************************************)
(* SpecEndpoints: get_usb_endpoints applied to the devices drawn by Init:   *)
(* keyboards, a keyboard behind another interface, two keyboards of one     *)
(* model, devices that are no keyboards and devices that raise.             *)
(***************************************************************************)
MaxDevices == 2     \* SpecEndpoints: devices attached

IntrIn == Endpoint("in", "intr")
BulkOut == Endpoint("out", "bulk")
Keyboard(vid, pid) ==
    Device("ok", TRUE, 0, 0, vid, pid, << Interface(0, 3, 1, 1, <<IntrIn>>) >>)

DeviceSample ==
    { Keyboard(57005, 48879),
      Keyboard(1133, 49948),
      \* a receiver: a mouse interface first, the keyboard interface second
      Device("ok", TRUE, 0, 0, 1133, 50475,
             << Interface(0, 3, 1, 2, <<IntrIn>>),
                Interface(1, 3, 1, 1, <<IntrIn>>) >>),
      \* a mouse
      Device("ok", TRUE, 0, 0, 1133, 49271,
             << Interface(0, 3, 1, 2, <<IntrIn>>) >>),
      \* a keyboard interface with no interrupt-IN endpoint
      Device("ok", TRUE, 0, 0, 1000, 1,
             << Interface(0, 3, 1, 1, <<BulkOut>>) >>),
      \* a hub
      Device("ok", TRUE, 9, 0, 7531, 2, << Interface(0, 9, 0, 0, <<IntrIn>>) >>),
      \* not a Device object
      Device("AttributeError", TRUE, 0, 0, 0, 0, <<>>),
      \* devices that cannot be opened, with and without readable strings
      Device("USBError", TRUE, 0, 0, 1000, 2, <<>>),
      Device("USBError", FALSE, 0, 0, 1000, 3, <<>>) }

RECURSIVE Lists(_, _)
Lists(S, n) ==
    IF n = 0 THEN { <<>> }
    ELSE Lists(S, n - 1) \cup { Append(l, x) : l \in Lists(S, n - 1), x \in S }

InitEndpoints ==
    /\ byte_arrays = <<>>
    /\ merged = NotCalled
    /\ port = <<>>
    /\ \E devices \in Lists(DeviceSample, MaxDevices) :
          call = [op |-> "get_usb_endpoints", devices |-> devices]
    /\ ret = [err |-> "not called", val |-> <<>>, logged |-> <<>>]
    /\ backend = "endpoints"
    /\ darwin = FALSE
    /\ modifier_map = <<>>
    /\ running = FALSE
    /\ pressed = {}
    /\ PortOpen
    /\ NoUsb
    /\ NoListeners

\* ret = get_usb_endpoints()
GetEndpoints ==
    /\ backend = "endpoints"
    /\ ret.err = "not called"
    /\ ret' = get_usb_endpoints(call.devices)
    /\ UNCHANGED <<byte_arrays, merged, port, call, backend, darwin,
                   modifier_map, running, pressed, transport, usbvars,
                   listenvars>>

SpecEndpoints == InitEndpoints /\ [][GetEndpoints]_vars

(***************************************************************************)
(* SpecMouse: the MouseOp handlers called with coordinates inside and       *)
(* outside the screen, every button, and scroll deltas inside and outside   *)
(* the signed 16-bit range, on a serial port that accepts every write.      *)
(***************************************************************************)
MaxEvents == 1      \* SpecMouse: mouse events handled before they stop

XSample == { 0, 1, 2, 960, 1919, 1920, 2500, -1, -100, -1920, -5000 }
YSample == { 0, 540, 1079, -1, -2500 }
WidthSample == { 3, 1920 }
HeightSample == { 1080 }
ButtonSample == { "RELEASE", "LEFT", "RIGHT", "MIDDLE" }
PointSample == { <<0, 0>>, <<5, -7>> }
DeltaSample == { -32768, -1, 0, 1, 32767, 40000 }

InitMouse ==
    /\ byte_arrays = <<>>
    /\ merged = NotCalled
    /\ port = <<>>
    /\ call = [op |-> "none"]
    /\ ret = [err |-> "none"]
    /\ backend = "mouseop"
    /\ darwin = FALSE
    /\ modifier_map = <<>>
    /\ running = FALSE
    /\ pressed = {}
    /\ PortOpen
    /\ NoUsb
    /\ NoListeners

MouseOpReady == backend = "mouseop" /\ Len(write_calls) < MaxEvents

OnMove ==
    /\ MouseOpReady
    /\ \E x \in XSample, y \in YSample, width \in WidthSample,
          height \in HeightSample :
          LET e == on_move(x, y, width, height) IN
          /\ call' = MouseCall("on_move", <<x, y, width, height>>)
          /\ Write(e)
          /\ ret' = Outcome(e)
    /\ UNCHANGED NotComm

OnClick ==
    /\ MouseOpReady
    /\ \E p \in PointSample, button \in ButtonSample, down \in BOOLEAN :
          LET e == on_click(p[1], p[2], button, down) IN
          /\ call' = MouseCall("on_click", <<p[1], p[2], button, down>>)
          /\ Write(e)
          /\ ret' = Outcome(e)
    /\ UNCHANGED NotComm

OnScroll ==
    /\ MouseOpReady
    /\ \E p \in PointSample, dx \in DeltaSample, dy \in DeltaSample :
          LET e == on_scroll(p[1], p[2], dx, dy) IN
          /\ call' = MouseCall("on_scroll", <<p[1], p[2], dx, dy>>)
          /\ Write(e)
          /\ ret' = Outcome(e)
    /\ UNCHANGED NotComm

NextMouseOp == OnMove \/ OnClick \/ OnScroll

SpecMouse == InitMouse /\ [][NextMouseOp]_vars

(***************************************************************************)
(* SpecListen: what control.py's start_threads sets up: a MouseListener and *)
(* a KeyboardListener on one serial port, each with a capture thread of its *)
(* own, and the code that starts and stops them.  port.write moves a packet *)
(* to the line in one piece or in several, and nothing orders the writes of *)
(* the two threads.                                                         *)
(*   thread[l]  "new", "alive" (started), "capturing" (keyboard: the        *)
(*              backend's run() is in progress), "stopping" (mouse:         *)
(*              Listener.stop() was called), "dead" (terminated)            *)
(*   caller[l]  "constructed", "started", "in stop" (blocked in join),      *)
(*              "stopped" (stop() returned), "raised"                       *)
(***************************************************************************)
MaxFrames == 2      \* SpecListen: packets the capture threads write in all
MaxChunk == 5       \* SpecListen: bytes a partial write moves to the line

Modes == { "NONE", "USB", "PYNPUT", "TTY", "CURSES" }

\* The reports a terminal backend sends, and the packets of the mouse events.
CaptureSample == { <<0, 0, 4, 0, 0, 0, 0, 0>>, <<2, 0, 5, 0, 0, 0, 0, 0>> }
MouseEffects ==
    { on_move(960, 540, 1920, 1080), on_click(0, 0, "LEFT", TRUE) }

InitListen ==
    /\ byte_arrays = <<>>
    /\ merged = NotCalled
    /\ port = <<>>
    /\ call = [op |-> "none", listener |-> "none"]
    /\ ret = [err |-> "none"]
    /\ backend = "listeners"
    /\ darwin = FALSE
    /\ modifier_map = <<>>
    /\ running = FALSE
    /\ pressed = {}
    /\ PortOpen
    /\ NoUsb
    /\ mode \in Modes
    /\ thread = [l \in Listeners |-> "new"]
    /\ caller = [l \in Listeners |-> "constructed"]
    /\ writing = [l \in Listeners |-> NotWriting]
    /\ wire = <<>>
    /\ frames = [l \in Listeners |-> 0]

NotListen == <<byte_arrays, merged, backend, darwin, modifier_map, pressed,
               port_open, usbvars, mode>>

ListenCall(op, l) == [op |-> op, listener |-> l]

\* The calling code is not blocked inside a stop().
CallerFree == \A l \in Listeners : caller[l] \notin { "in stop", "raised" }

\* A join that returns at once, whatever the thread is doing.
Joined_WithoutWaiting(l) == TRUE

\* self.thread.join() returns
Joined(l) == thread[l] = "dead"

\* start(): self.thread.start()
Start(l) ==
    /\ CallerFree
    /\ call' = ListenCall("start", l)
    /\ IF thread[l] = "new"
          THEN /\ thread' = [thread EXCEPT ![l] = "alive"]
               /\ caller' = [caller EXCEPT ![l] = "started"]
               /\ ret' = [err |-> "none"]
          \* threads can only be started once
          ELSE /\ ret' = [err |-> "RuntimeError"]
               /\ UNCHANGED <<thread, caller>>
    /\ UNCHANGED <<port, transport, running, writing, wire, frames, NotListen>>

\* stop(), up to its join: self.running = False or self.thread.stop()
StopCall(l) ==
    /\ CallerFree
    /\ call' = ListenCall("stop", l)
    /\ running' = IF l = "keyboard" THEN FALSE ELSE running
    /\ IF thread[l] = "new"
          \* cannot join thread before it is started
          THEN /\ ret' = [err |-> "RuntimeError"]
               /\ caller' = [caller EXCEPT ![l] = "raised"]
               /\ UNCHANGED thread
          ELSE /\ ret' = [err |-> "none"]
               /\ caller' = [caller EXCEPT ![l] = "in stop"]
               /\ thread' = [thread EXCEPT ![l] =
                                IF l = "mouse" /\ @ = "alive"
                                    THEN "stopping" ELSE @]
    /\ UNCHANGED <<port, transport, writing, wire, frames, NotListen>>

\* stop() returns when its join does
StopReturn(l) ==
    /\ caller[l] = "in stop"
    /\ Joined(l)
    /\ call' = ListenCall("stop returns", l)
    /\ ret' = [err |-> "none"]
    /\ caller' = [caller EXCEPT ![l] = "stopped"]
    /\ UNCHANGED <<port, transport, running, thread, writing, wire, frames,
                   NotListen>>

\* The thread begins self.port.write(packet) with the packet of effect e.
BeginWrite(l, e) ==
    /\ writing[l] = NotWriting
    /\ Len(write_calls) < MaxFrames
    /\ e.written # <<>>
    /\ writing' = [writing EXCEPT ![l] = [packet |-> e.written[1], sent |-> 0]]
    /\ write_calls' = write_calls \o e.written
    /\ frames' = [frames EXCEPT ![l] = @ + 1]
    /\ ret' = Outcome(e)
    /\ UNCHANGED <<port, port_open, wire, running, thread, caller>>

\* run_keyboard, up to the backend's run()
KeyboardRun ==
    /\ thread["keyboard"] = "alive"
    /\ call' = ListenCall("run_keyboard", "keyboard")
    /\ IF mode = "NONE"
          THEN /\ thread' = [thread EXCEPT !["keyboard"] = "dead"]
               /\ ret' = [err |-> "none"]
       ELSE IF mode \in { "USB", "PYNPUT" }
          \* __init__() got an unexpected keyword argument 'layout'
          THEN /\ thread' = [thread EXCEPT !["keyboard"] = "dead"]
               /\ ret' = [err |-> "TypeError"]
          ELSE /\ thread' = [thread EXCEPT !["keyboard"] = "capturing"]
               /\ ret' = [err |-> "none"]
    /\ UNCHANGED <<port, transport, running, caller, writing, wire, frames,
                   NotListen>>

\* A terminal backend sends the report of a key.
KeyboardCapture ==
    /\ thread["keyboard"] = "capturing"
    /\ \E r \in CaptureSample :
          /\ call' = [op |-> "key", listener |-> "keyboard", args |-> r]
          /\ BeginWrite("keyboard", send_scancode(r))
    /\ UNCHANGED NotListen

\* A terminal backend's run() returns at its exit key.
KeyboardExit ==
    /\ thread["keyboard"] = "capturing"
    /\ writing["keyboard"] = NotWriting
    /\ call' = ListenCall("run returns", "keyboard")
    /\ ret' = [err |-> "none"]
    /\ thread' = [thread EXCEPT !["keyboard"] = "dead"]
    /\ UNCHANGED <<port, transport, running, caller, writing, wire, frames,
                   NotListen>>

\* The mouse Listener calls on_move or on_click.
MouseEvent ==
    /\ thread["mouse"] \in { "alive", "stopping" }
    /\ \E e \in MouseEffects :
          /\ call' = [op |-> "mouse", listener |-> "mouse", args |-> e.written]
          /\ BeginWrite("mouse", e)
    /\ UNCHANGED NotListen

\* The mouse Listener's thread ends once it was told to stop.
MouseExit ==
    /\ thread["mouse"] = "stopping"
    /\ writing["mouse"] = NotWriting
    /\ call' = ListenCall("listener ends", "mouse")
    /\ ret' = [err |-> "none"]
    /\ thread' = [thread EXCEPT !["mouse"] = "dead"]
    /\ UNCHANGED <<port, transport, running, caller, writing, wire, frames,
                   NotListen>>

\* self.port.write(packet) in progress: the next bytes of the packet reach
\* the line, all that are left or MaxChunk of them.
WriteBytes(l) ==
    /\ writing[l] # NotWriting
    /\ LET w == writing[l]
           left == Len(w.packet) - w.sent
       IN  \E n \in { left } \cup { k \in { MaxChunk } : k < left } :
              /\ wire' = wire \o SubSeq(w.packet, w.sent + 1, w.sent + n)
              /\ IF n = left
                    THEN /\ writing' = [writing EXCEPT ![l] = NotWriting]
                         /\ port' = Append(port, w.packet)
                    ELSE /\ writing' = [writing EXCEPT ![l].sent = @ + n]
                         /\ UNCHANGED port
    /\ call' = ListenCall("write", l)
    /\ UNCHANGED <<ret, transport, running, thread, caller, frames, NotListen>>

NextListen ==
    \/ \E l \in Listeners : Start(l)
    \/ \E l \in Listeners : StopCall(l)
    \/ \E l \in Listeners : StopReturn(l)
    \/ KeyboardRun
    \/ KeyboardCapture
    \/ KeyboardExit
    \/ MouseEvent
    \/ MouseExit
    \/ \E l \in Listeners : WriteBytes(l)

SpecListen == InitListen /\ [][NextListen]_vars

\* SpecListen with the scheduling the threads get: a thread that can take a
\* step of its own code takes it, and a join whose thread has ended
\* returns.  Nothing makes the user press a key or move the mouse, and
\* nothing makes the calling code call start() or stop().
SpecListenLive ==
    /\ InitListen
    /\ [][NextListen]_vars
    /\ WF_vars(KeyboardRun)
    /\ WF_vars(MouseExit)
    /\ \A l \in Listeners : WF_vars(WriteBytes(l)) /\ WF_vars(StopReturn(l))

(***************************************************************************)
(* SpecAscii: ascii_to_scancode applied to a character and a layout name    *)
(* drawn by Init: every character of BASE_LAYOUT and some that no layout    *)
(* has, under each layout and under a name that is not a layout.            *)
(***************************************************************************)
CharSample == Keys(BASE_LAYOUT_ITEMS) \cup { "é", "\r", "€", "ß" }
LayoutSample == { "en_GB", "en_US", "fr_FR" }

InitAscii ==
    /\ byte_arrays = <<>>
    /\ merged = NotCalled
    /\ port = <<>>
    /\ \E c \in CharSample, l \in LayoutSample :
          call = [op |-> "ascii_to_scancode", ascii_char |-> c, layout |-> l]
    /\ ret = [err |-> "not called", val |-> <<>>]
    /\ backend = "ascii"
    /\ darwin = FALSE
    /\ modifier_map = <<>>
    /\ running = FALSE
    /\ pressed = {}
    /\ PortOpen
    /\ NoUsb
    /\ NoListeners

\* ret = ascii_to_scancode(ascii_char, layout)
Convert ==
    /\ backend = "ascii"
    /\ ret.err = "not called"
    /\ ret' = Returned(ascii_to_scancode(call.ascii_char, call.layout))
    /\ UNCHANGED <<byte_arrays, merged, port, call, backend, darwin,
                   modifier_map, running, pressed, transport, usbvars,
                   listenvars>>

SpecAscii == InitAscii /\ [][Convert]_vars

(***************************************************************************)
(* SpecRoundTrip: a character drawn by Init is encoded by ascii_to_scancode *)
(* and the scancode is decoded by scancode_to_ascii, as the USB backend     *)
(* decodes the reports it reads.                                            *)
(***************************************************************************)
InitRoundTrip ==
    /\ byte_arrays = <<>>
    /\ merged = NotCalled
    /\ port = <<>>
    /\ \E c \in CharSample, l \in LayoutSample, r \in BOOLEAN :
          call = [op |-> "none", ascii_char |-> c, layout |-> l,
                  raise_err |-> r]
    /\ ret = [err |-> "not called", val |-> <<>>]
    /\ backend = "roundtrip"
    /\ darwin = FALSE
    /\ modifier_map = <<>>
    /\ running = FALSE
    /\ pressed = {}
    /\ PortOpen
    /\ NoUsb
    /\ NoListeners

NotRoundTrip == <<byte_arrays, merged, port, backend, darwin, modifier_map,
                  running, pressed, transport, usbvars, listenvars>>

\* scancode = ascii_to_scancode(ascii_char, layout)
Encode ==
    /\ backend = "roundtrip"
    /\ call.op = "none"
    /\ call' = [call EXCEPT !.op = "ascii_to_scancode"]
    /\ ret' = Returned(ascii_to_scancode(call.ascii_char, call.layout))
    /\ UNCHANGED NotRoundTrip

\* scancode_to_ascii(scancode, raise_err)
Decode ==
    /\ backend = "roundtrip"
    /\ call.op = "ascii_to_scancode"
    /\ call' = [call EXCEPT !.op = "scancode_to_ascii"]
    /\ ret' = scancode_to_ascii(ret.val, call.raise_err)
    /\ UNCHANGED NotRoundTrip

NextRoundTrip == Encode \/ Decode

SpecRoundTrip == InitRoundTrip /\ [][NextRoundTrip]_vars

(***************************************************************************)
(* utils.py: string_to_scancodes.  A string is the sequence of its          *)
(* characters.                                                              *)
(***************************************************************************)
\* [val for val in scancodes for _ in range(key_repeat)]
Duplicate(scancodes, key_repeat) ==
    [k \in 1..(Len(scancodes) * key_repeat) |->
        scancodes[((k - 1) \div key_repeat) + 1]]

\* for i, key in enumerate(scancodes): ... from index i on
RECURSIVE InsertKeyUp(_, _, _, _, _)
InsertKeyUp(scancodes, i, key_repeat, key_up, new_scancodes) ==
    IF i >= Len(scancodes) THEN new_scancodes
    ELSE LET appended == Append(new_scancodes, At(scancodes, i))
         IN  InsertKeyUp(scancodes, i + 1, key_repeat, key_up,
                 IF i % key_repeat = key_repeat - 1
                     THEN appended \o [j \in 1..key_up |-> build_scancode(0, 0)]
                     ELSE appended)

\* string_to_scancodes with the key-up reports after every report.
string_to_scancodes_KeyUpAfterEveryReport(input_string, key_repeat, key_up) ==
    IF key_repeat < 1 \/ key_up < 0 THEN Raised("ValueError")
    ELSE LET scancodes == [i \in 1..Len(input_string) |->
                              ascii_to_scancode(input_string[i], "en_GB")]
             repeated == IF key_repeat > 1
                             THEN Duplicate(scancodes, key_repeat)
                             ELSE scancodes
         IN  Returned(IF key_up # 0
                          THEN InsertKeyUp(repeated, 0, 1, key_up, <<>>)
                          ELSE repeated)

string_to_scancodes(input_string, key_repeat, key_up) ==
    IF key_repeat < 1 \/ key_up < 0 THEN Raised("ValueError")
    ELSE LET scancodes == [i \in 1..Len(input_string) |->
                              ascii_to_scancode(input_string[i], "en_GB")]
             repeated == IF key_repeat > 1
                             THEN Duplicate(scancodes, key_repeat)
                             ELSE scancodes
         IN  Returned(IF key_up # 0
                          THEN InsertKeyUp(repeated, 0, key_repeat, key_up, <<>>)
                          ELSE repeated)

(***************************************************************************)
(* SpecString: string_to_scancodes applied to a string, a key_repeat and a  *)
(* key_up drawn by Init.                                                    *)
(***************************************************************************)
MaxString == 2      \* SpecString: characters of the string

StringChars == { "a", "B", "1", "£", "é" }
RepeatSample == { -1, 0, 1, 2, 3 }
KeyUpSample == { -1, 0, 1, 2 }

InitString ==
    /\ byte_arrays = <<>>
    /\ merged = NotCalled
    /\ port = <<>>
    /\ \E s \in Lists(StringChars, MaxString), r \in RepeatSample,
          u \in KeyUpSample :
          call = [op |-> "string_to_scancodes", input_string |-> s,
                  key_repeat |-> r, key_up |-> u]
    /\ ret = [err |-> "not called", val |-> <<>>]
    /\ backend = "string"
    /\ darwin = FALSE
    /\ modifier_map = <<>>
    /\ running = FALSE
    /\ pressed = {}
    /\ PortOpen
    /\ NoUsb
    /\ NoListeners

\* ret = string_to_scancodes(input_string, key_repeat, key_up)
ConvertString ==
    /\ backend = "string"
    /\ ret.err = "not called"
    /\ ret' = string_to_scancodes(call.input_string, call.key_repeat,
                                  call.key_up)
    /\ UNCHANGED <<byte_arrays, merged, port, call, backend, darwin,
                   modifier_map, running, pressed, transport, usbvars,
                   listenvars>>

SpecString == InitString /\ [][ConvertString]_vars

(***************************************************************************)
(* What the claims say of a merge, stated without merge_scancodes.         *)
(***************************************************************************)
HasBit(x, b) == (x \div (2 ^ b)) % 2 = 1

RECURSIVE SumSet(_)
SumSet(S) == IF S = {} THEN 0
             ELSE LET x == CHOOSE y \in S : TRUE IN x + SumSet(S \ {x})

\* The bitwise OR of a set of bytes: the bits set in any of them.
UnionOfBits(bytes) ==
    SumSet({ 2 ^ b : b \in { c \in 0..7 : \E x \in bytes : HasBit(x, c) } })

\* The non-zero key-code bytes (positions 2..7) of one scancode, in order.
KeyCodes(scancode) == SelectSeq(SubSeq(scancode, 3, 8), LAMBDA k : k # 0)

RECURSIVE AllKeyCodes(_)
AllKeyCodes(arrays) ==
    IF arrays = <<>> THEN <<>>
    ELSE KeyCodes(arrays[1]) \o AllKeyCodes(Tail(arrays))

ModifierBytes(arrays) == { arrays[i][1] : i \in 1..Len(arrays) }

\* C1: for every list of 8-byte scancodes holding 0 to 6 non-zero key codes
\* in all, merge_scancodes returns the report whose byte 0 is the OR of the
\* inputs' bytes 0, whose byte 1 is 0 and whose bytes 2.. are the inputs'
\* non-zero key codes in input order, zero-padded.
C1_MergeUpToSixKeys ==
    (merged # NotCalled /\ Len(AllKeyCodes(byte_arrays)) <= 6) =>
        /\ merged.err = "none"
        /\ merged.val = <<UnionOfBits(ModifierBytes(byte_arrays)), 0>>
                        \o AllKeyCodes(byte_arrays)
                        \o Zeros(6 - Len(AllKeyCodes(byte_arrays)))

\* C2: for every list of scancodes holding more than 6 non-zero key codes in
\* all, merge_scancodes raises OverflowError and returns no report.
C2_MergeOverflowAboveSix ==
    (merged # NotCalled /\ Len(AllKeyCodes(byte_arrays)) > 6) =>
        merged.err = "OverflowError"

(***************************************************************************)
(* DataComm claims.  call' names the call a step makes; port and port' are  *)
(* the transport before and after it.                                       *)
(***************************************************************************)
WellFormed(c) == Len(c.head) = 2 /\ Len(c.addr) = 1 /\ Len(c.cmd) = 1

\* A frame for call c, read off the bytes written: HEAD ADDR CMD LEN PAYLOAD
\* SUM, with SUM the low byte of the sum of all bytes before it.
IsFrameOf(packet, c) ==
    /\ Len(packet) = 6 + Len(c.data)
    /\ SubSeq(packet, 1, 2) = c.head
    /\ SubSeq(packet, 3, 3) = c.addr
    /\ SubSeq(packet, 4, 4) = c.cmd
    /\ packet[5] = Len(c.data)
    /\ SubSeq(packet, 6, 5 + Len(c.data)) = c.data
    /\ packet[Len(packet)] = SumBytes(SubSeq(packet, 1, Len(packet) - 1)) % 256

WritesOneFrameOf(c) ==
    /\ Len(port') = Len(port) + 1
    /\ SubSeq(port', 1, Len(port)) = port
    /\ IsFrameOf(port'[Len(port')], c)

\* C3: send with a payload of 0..255 bytes, a 2-byte head and 1-byte addr and
\* cmd makes exactly one write, of head + addr + cmd + LEN + payload +
\* checksum, 6 + len(payload) bytes long, and returns True.
C3_SendWritesOneFrame ==
    [][(call'.op = "send" /\ WellFormed(call') /\ Len(call'.data) <= 255)
        => (WritesOneFrameOf(call') /\ ret'.err = "none" /\ ret'.val = TRUE)]_vars

\* C3 witness: an 8-byte keyboard report went out as a 14-byte frame after an
\* earlier write.
C3_Witness ==
    /\ call.op = "send"
    /\ call.data = <<4, 0, 6, 0, 0, 0, 0, 0>>
    /\ Len(port) = 2
    /\ port[2] = <<87, 171, 0, 2, 8, 4, 0, 6, 0, 0, 0, 0, 0, 22>>
    /\ ret.val = TRUE

\* C4: send raises ValueError whenever head is not 2 bytes or addr is not 1
\* byte or cmd is not 1 byte, and then writes nothing.
C4_SendRejectsMalformed ==
    [][(call'.op = "send" /\ ~WellFormed(call'))
        => (ret'.err = "ValueError" /\ port' = port)]_vars

\* C4 witness: a send whose only fault is a 2-byte cmd was rejected after an
\* earlier write, which is still the only packet on the port.
C4_Witness ==
    /\ call.op = "send"
    /\ Len(call.head) = 2 /\ Len(call.addr) = 1 /\ Len(call.cmd) = 2
    /\ ret.err = "ValueError"
    /\ Len(port) = 1

\* C5: send_scancode writes a keyboard frame (command 0x02) only for a
\* scancode of exactly 8 bytes; for any other length, shorter or longer, it
\* returns False, raises nothing and writes nothing.
C5_SendScancodeExactlyEight ==
    [][call'.op = "send_scancode" =>
        IF Len(call'.data) = 8
            THEN WritesOneFrameOf(call') /\ call'.cmd = <<2>>
            ELSE ret'.err = "none" /\ ret'.val = FALSE /\ port' = port]_vars

ReleaseFrame == <<87, 171, 0, 2, 8, 0, 0, 0, 0, 0, 0, 0, 0, 12>>

\* C6: after any sequence of earlier calls, release() writes exactly the
\* frame 57 AB 00 02 08 00*8 0C.
C6_ReleaseFrameConstant ==
    [][call'.op = "release" => port' = Append(port, ReleaseFrame)]_vars

\* C6 witness: release wrote its frame after a send of another packet.
C6_Witness ==
    /\ call.op = "release"
    /\ Len(port) = 2
    /\ port[1] # ReleaseFrame
    /\ port[2] = ReleaseFrame

(***************************************************************************)
(* Backend claims.  call' is the event a step delivers, modifier_map and   *)
(* modifier_map' the map before and after it.                               *)
(***************************************************************************)
ModifierTable(b, is_darwin) ==
    IF b = "pynput" THEN PynputTable(PYNPUT_MODIFIER_TO_VALUE)
    ELSE IF b = "tk" THEN TK_MODIFIER_TO_VALUE
    ELSE QT_MODIFIER_TO_VALUE(is_darwin)

NamedKeyTable(b) ==
    IF b = "pynput" THEN PynputTable(PYNPUT_KEYS_WITH_CODES)
    ELSE IF b = "tk" THEN TK_KEYS_WITH_CODES
    ELSE QT_KEYS_WITH_CODES

\* The character an event carries, "" when it carries none.
CharOf(b, c) ==
    IF b = "pynput" THEN (IF c.key.type = "KeyCode" THEN c.key.id ELSE "")
    ELSE IF b = "tk" THEN c.key
    ELSE IF c.event.text # "" THEN c.event.text
    ELSE IF c.event.chr = "ValueError" THEN ""
    ELSE c.event.chr

Layout == get_layout("en_GB").val

IsModifier(c) == c.key \in DOMAIN ModifierTable(backend, darwin)
IsNamedKey(c) == ~IsModifier(c) /\ c.key \in DOMAIN NamedKeyTable(backend)
IsCharacter(c) ==
    /\ ~IsModifier(c)
    /\ c.key \notin DOMAIN NamedKeyTable(backend)
    /\ CharOf(backend, c) \in Keys(Layout)
Recognised(c) == IsModifier(c) \/ IsNamedKey(c) \/ IsCharacter(c)

\* direct characters: lowercase letters, digits, whitespace and the unshifted
\* punctuation; every other character of the layout needs Shift
RequiresShift(ch) == ~(islower(ch) \/ isdigit(ch) \/ ch \in UnshiftedLiteral)

\* The bits of the modifiers a map holds, read from the backend's table.
HeldBits(map) ==
    { ModifierTable(backend, darwin)[k] : k \in Keys(map) }

KeyboardFrame(report) ==
    [head |-> DEFAULT_HEAD, addr |-> DEFAULT_ADDR, cmd |-> DEFAULT_CMD,
     data |-> report]

EmitsOneReport(report) == WritesOneFrameOf(KeyboardFrame(report))

C8_ReleaseEmitsRemainingModifiers ==
    [][call'.op = "release" =>
        /\ modifier_map' = Pop(modifier_map, call'.key)
        /\ EmitsOneReport(<<UnionOfBits(HeldBits(modifier_map')),
                             0, 0, 0, 0, 0, 0, 0>>)]_vars

\* An exception that reports a failure.  Listener.StopException is how the
\* Pynput handler stops its listener on Ctrl+Esc.
IsError(e) == e \notin { "none", "StopException" }

\* C9: in the Pynput, Qt and Tk backends, after any sequence of presses and
\* releases the map holds exactly the modifier keys pressed and not released
\* since: a modifier press adds its entry, a non-modifier press adds none, the
\* release of a key in the map removes it, and the release of a key that is
\* not in the map leaves the map as it was and raises no error.
C9_ModifierMapTracksHeldModifiers ==
    [][/\ Keys(modifier_map') = pressed'
       /\ Keys(modifier_map') \subseteq DOMAIN ModifierTable(backend, darwin)
       /\ (call'.op = "press" /\ IsModifier(call'))
            => Keys(modifier_map') = Keys(modifier_map) \cup {call'.key}
       /\ (call'.op = "press" /\ ~IsModifier(call'))
            => modifier_map' = modifier_map
       /\ (call'.op = "release" /\ call'.key \in Keys(modifier_map))
            => Keys(modifier_map') = Keys(modifier_map) \ {call'.key}
       /\ (call'.op = "release" /\ call'.key \notin Keys(modifier_map))
            => (modifier_map' = modifier_map /\ ~IsError(ret'.err))]_vars

\* C9 witness: of two modifiers pressed one was released, and the map holds
\* the other alone.
C9_Witness ==
    /\ call.op = "release"
    /\ call.key \in ModifierKeys(backend)
    /\ Len(port) = 3
    /\ Len(modifier_map) = 1
    /\ call.key \notin Keys(modifier_map)
    /\ pressed = Keys(modifier_map)

LoggedMiss(r) ==
    \E i \in 1..Len(r.logged) : r.logged[i].level \in { "error", "warning" }

\* C10: when a press carries a key that cannot be mapped (not a modifier, not
\* a named key, no character of the layout), the Pynput, Qt and Tk backends
\* log the miss, write no report for the event and go on with later events.
C10_UnmappablePressIsDropped ==
    [][(call'.op = "press" /\ ~Recognised(call')) =>
        /\ LoggedMiss(ret')
        /\ port' = port
        /\ ret'.err = "none"
        /\ running']_vars

\* The Ctrl keys of pynputop.py's MODIFIER_TO_VALUE.
PynputCtrlKeys == { PKey("ctrl"), PKey("ctrl_l"), PKey("ctrl_r") }

\* C11: in the Pynput backend the listener stops on exactly one event, the
\* release of Esc while any of Key.ctrl, Key.ctrl_l, Key.ctrl_r is in the
\* map; no other event stops it, Ctrl+C (press and release of c with Ctrl
\* held) included.
C11_PynputStopsOnCtrlEscOnly ==
    [][backend = "pynput" =>
        (~running' <=> /\ call'.op = "release"
                       /\ call'.key = PKey("esc")
                       /\ Keys(modifier_map) \cap PynputCtrlKeys # {})]_vars

(***************************************************************************)
(* PyUSBOp claims.  call' is the poll a step makes: what endpoint.read      *)
(* returned or raised.                                                      *)
(***************************************************************************)
CtrlEscReport == <<1, 0, 41, 0, 0, 0, 0, 0>>
CtrlCReport == <<1, 0, 6, 0, 0, 0, 0, 0>>

Polled(c, data) == c.op = "poll" /\ c.read = Report(data)

\* C12: in the USB passthrough loop, reading the report 01 00 29 00*5
\* (Ctrl+Esc) makes _parse_key return False, so that run() leaves the loop
\* and returns; reading 01 00 06 00*5 (Ctrl+C) hands the report to
\* send_scancode and, the serial port accepting the write, puts its frame on
\* the wire and leaves the loop running.
C12_CtrlEscExitsCtrlCForwards ==
    [][/\ Polled(call', CtrlEscReport) =>
            /\ ret'.err = "none" /\ ret'.val = FALSE
            /\ usb_pc' = "returned"
       /\ Polled(call', CtrlCReport) =>
            /\ forwarded' = Append(forwarded, CtrlCReport)
            /\ port_open =>
                 /\ EmitsOneReport(CtrlCReport)
                 /\ usb_pc' = "loop"]_vars

\* C12 witness: Ctrl+C was read and forwarded, the loop went on, and a later
\* Ctrl+Esc made run return.
C12_Witness ==
    /\ Polled(call, CtrlEscReport)
    /\ usb_pc = "returned"
    /\ reads = <<CtrlCReport, CtrlEscReport>>
    /\ forwarded = <<CtrlCReport>>
    /\ Len(port) = 1

\* C13: the exit check reads bits: every 8-byte report whose byte 0 has a
\* Ctrl bit set (0x01 left, 0x10 right), alone or with other modifier bits,
\* and whose byte 2 is the Esc code 0x29 stops the loop.
C13_ExitCheckIsBitBased ==
    [][(/\ call'.op = "poll"
        /\ call'.read.kind = "data"
        /\ Len(call'.read.data) = 8
        /\ BitAnd(call'.read.data[1], 17) # 0
        /\ call'.read.data[3] = 41)
       => usb_pc' # "loop"]_vars

\* C14: every report read from the keyboard endpoint during run(), whatever
\* it holds, is given unmodified to send_scancode exactly once, in the order
\* read: the reports forwarded are the reports read.
C14_EveryReportForwardedOnce == forwarded = reads

\* C15: whenever run() has left its read loop (exit sequence, USB error, or
\* any other exception such as a failed write to the serial port), the USB
\* resources have been disposed and, if run() detached the kernel driver at
\* its start, the driver is attached again.
C15_CleanupOnEveryExit ==
    usb_pc \in { "returned", "raised" } =>
        /\ disposed
        /\ detached => driver_active

\* C15 witness: run() was ended by a failed write to the serial port, after
\* it had detached the kernel driver.
C15_Witness ==
    /\ usb_pc = "raised"
    /\ ret.err = "SerialException"
    /\ detached
    /\ disposed
    /\ driver_active
    /\ Len(reads) >= 2

\* C16: in run(), a read timeout keeps the loop running and forwards nothing
\* for that poll; any other USB read error reaches the caller of run() as an
\* error.
C16_TimeoutContinuesOtherErrorsPropagate ==
    [][(call'.op = "poll" /\ call'.read.kind = "USBError") =>
        IF call'.read.errno = 60
            THEN /\ usb_pc' = "loop"
                 /\ forwarded' = forwarded
                 /\ write_calls' = write_calls
            ELSE /\ usb_pc' = "raised"
                 /\ ret'.err = "USBError"]_vars

\* C17: a failure of the write inside DataComm.send reaches the caller as
\* the error it is, whether send was called directly or through
\* send_scancode, release, a MouseOp handler, a press or release handler of
\* a backend, or the loop of PyUSBOp.run: the call ends with that exception,
\* exactly one write was attempted for the frame, nothing reached the wire,
\* and the handler or loop does not go on.  No call raises it while the port
\* accepts writes.
C17_WriteFailurePropagatesOnce ==
    [][/\ (write_calls' # write_calls /\ ~port_open) =>
            /\ ret'.err = "SerialException"
            /\ Len(write_calls') = Len(write_calls) + 1
            /\ port' = port
            /\ backend \in Backends => ~running'
            /\ backend = "usb" => usb_pc' = "raised"
       /\ (ret'.err = "SerialException" /\ ret # ret') => ~port_open]_vars

\* C17 witness: a Pynput release handler was ended by the failed write of
\* its report, after an earlier report had been written.
C17_Witness ==
    /\ backend = "pynput"
    /\ call.op = "release"
    /\ ret.err = "SerialException"
    /\ ~running
    /\ Len(port) = 1
    /\ Len(write_calls) = 2


(***************************************************************************)
(* The listeners and their capture threads.                                *)
(***************************************************************************)
\* C18: start() returns with the capture thread started and not waited for;
\* stop() returns only once that thread has terminated; and from the moment
\* stop() has returned the listener's thread hands no packet to the
\* transport and moves no byte onto the line.
C18_StartReturnsStopJoins ==
    [][\A l \in Listeners :
          /\ (call' = ListenCall("start", l) /\ thread[l] = "new") =>
                /\ thread'[l] = "alive"
                /\ caller'[l] = "started"
          /\ caller'[l] = "stopped" => thread'[l] = "dead"
          /\ caller[l] = "stopped" =>
                /\ frames'[l] = frames[l]
                /\ writing'[l] = writing[l]
                /\ (call'.listener = l /\ call'.op # "start") =>
                      (wire' = wire /\ write_calls' = write_calls)]_vars

\* Both listeners were started, both threads wrote packets, and both stop()
\* calls have returned.
C18_Witness ==
    \A l \in Listeners :
        /\ caller[l] = "stopped"
        /\ frames[l] > 0
        /\ thread[l] = "dead"

\* The bytes w, read as the chip reads them: frames of header, address,
\* command, length, payload and checksum one after another, and after them
\* at most the beginning of one more frame.
RECURSIVE WholeFrames(_)
WholeFrames(w) ==
    IF Len(w) < 5
        THEN \A i \in 1..Len(w) : i <= 2 => w[i] = DEFAULT_HEAD[i]
    ELSE LET n == w[5] + 6 IN
         /\ w[1] = DEFAULT_HEAD[1]
         /\ w[2] = DEFAULT_HEAD[2]
         /\ Len(w) >= n =>
               /\ SumBytes(SubSeq(w, 1, n - 1)) % 256 = w[n]
               /\ WholeFrames(SubSeq(w, n + 1, Len(w)))

\* C19: with the keyboard backend and the mouse backend writing to the same
\* serial port, the bytes on the line are always whole frames one after
\* another: the bytes of one frame never land inside another.
C19_WritesAreSerialized == WholeFrames(wire)

(***************************************************************************)
(* Characters and layouts.                                                 *)
(***************************************************************************)
KnownLayouts == { "en_GB", "en_US" }

\* The characters sent without Shift: lowercase letters, digits, whitespace
\* and backspace, and the unshifted punctuation.
DirectWhitespace == { "\n", "\t", " ", "\\x08" }
DirectPunctuation ==
    { "-", "=", "[", "]", ";", "'", ",", ".", "/", "\\", "\\x60" }
IsDirect(c) ==
    c \in LowerLetters \cup Digits \cup DirectWhitespace \cup DirectPunctuation

KeyWith(modifier, code) == <<modifier, 0, code, 0, 0, 0, 0, 0>>

C21_UnknownLayoutIsAnError ==
    (ret.err # "not called" /\ call.layout \notin KnownLayouts) =>
        /\ get_layout(call.layout).err = "ValueError"
        /\ ret.err = "ValueError"


UpperLetters ==
    { "A", "B", "C", "D", "E", "F", "G", "H", "I", "J", "K", "L", "M",
      "N", "O", "P", "Q", "R", "S", "T", "U", "V", "W", "X", "Y", "Z" }
LettersAndDigits == LowerLetters \cup UpperLetters \cup Digits

\* The key code the layout named l gives the character c.
CodeUnder(l, c) == Lookup(get_layout(l).val, c)
Has(l, c) == c \in Keys(get_layout(l).val)

\* The codes of the three characters that differ, per layout.
DiffersTable ==
    [en_GB |-> [quote |-> 31, at |-> 52, hash |-> 50],
     en_US |-> [quote |-> 52, at |-> 31, hash |-> 32]]

\* C22: en_GB and en_US give every ASCII letter and digit the same key
\* code; the double quote, the at sign and the hash sign have the codes
\* 0x1F, 0x34, 0x32 under en_GB and 0x34, 0x1F, 0x20 under en_US; the pound
\* sign and the not sign are in en_GB and not in en_US.  A conversion under
\* either layout carries the layout's code in byte 2.
C22_LayoutDifferences ==
    /\ \A c \in LettersAndDigits :
          /\ Has("en_GB", c) /\ Has("en_US", c)
          /\ CodeUnder("en_GB", c) = CodeUnder("en_US", c)
    /\ \A l \in KnownLayouts :
          /\ CodeUnder(l, "\"") = DiffersTable[l].quote
          /\ CodeUnder(l, "@") = DiffersTable[l].at
          /\ CodeUnder(l, "#") = DiffersTable[l].hash
    /\ \A c \in { "£", "¬" } : Has("en_GB", c) /\ ~Has("en_US", c)
    /\ (ret.err = "none" /\ call.layout \in KnownLayouts) =>
          LET c == call.ascii_char
              l == call.layout
          IN  /\ c = "\"" => At(ret.val, 2) = DiffersTable[l].quote
              /\ c = "@" => At(ret.val, 2) = DiffersTable[l].at
              /\ c = "#" => At(ret.val, 2) = DiffersTable[l].hash
              /\ c \in { "£", "¬" } => (At(ret.val, 2) # 0 <=> l = "en_GB")
              /\ c \in LettersAndDigits =>
                    At(ret.val, 2) = CodeUnder("en_GB", c)

\* The hash sign converted under en_US: Shift and the code 0x20.
C22_Witness ==
    /\ ret.err = "none"
    /\ call.ascii_char = "#"
    /\ call.layout = "en_US"
    /\ ret.val = KeyWith(2, 32)


(***************************************************************************)
(* The mouse handlers.  call'.args are the arguments of the handler a step  *)
(* calls.                                                                   *)
(***************************************************************************)
MouseFrame(cmd, payload) ==
    [head |-> DEFAULT_HEAD, addr |-> DEFAULT_ADDR, cmd |-> cmd,
     data |-> payload]

SendsMouse(cmd, payload) ==
    /\ WritesOneFrameOf(MouseFrame(cmd, payload))
    /\ ret'.err = "none"
    /\ ret'.val = TRUE

\* The integer q with q <= (4096 * v) / size < q + 1, for 0 <= v < size.
Scaled(v, size) ==
    CHOOSE q \in 0..4095 : q * size <= 4096 * v /\ 4096 * v < (q + 1) * size

LowHigh(n) == <<n % 256, n \div 256>>

\* C23: on_move(x, y, width, height) with 0 <= x < width and 0 <= y < height
\* sends with command 0x04 the payload 02 00 X_lo X_hi Y_lo Y_hi 00, X and Y
\* the floors of 4096*x/width and 4096*y/height, both in 0..4095.
C23_MoveSendsScaledPosition ==
    [][(/\ call'.op = "on_move"
        /\ 0 <= call'.args[1] /\ call'.args[1] < call'.args[3]
        /\ 0 <= call'.args[2] /\ call'.args[2] < call'.args[4]) =>
          LET X == Scaled(call'.args[1], call'.args[3])
              Y == Scaled(call'.args[2], call'.args[4])
          IN  /\ \E q \in 0..4095 :
                    /\ q * call'.args[3] <= 4096 * call'.args[1]
                    /\ 4096 * call'.args[1] < (q + 1) * call'.args[3]
              /\ \E q \in 0..4095 :
                    /\ q * call'.args[4] <= 4096 * call'.args[2]
                    /\ 4096 * call'.args[2] < (q + 1) * call'.args[4]
              /\ SendsMouse(<<4>>, <<2, 0>> \o LowHigh(X) \o LowHigh(Y) \o <<0>>)
      ]_vars

\* on_move(960, 540, 1920, 1080) sent X = Y = 2048, low byte first.
C23_Witness ==
    /\ call.op = "on_move"
    /\ call.args = <<960, 540, 1920, 1080>>
    /\ port = << <<87, 171, 0, 4, 7, 2, 0, 0, 8, 0, 8, 0, 31>> >>

\* The coordinate a move frame carries, from its two bytes at offset i of
\* the payload.
SentCoordinate(packet, i) == packet[6 + i] + 256 * packet[7 + i]

\* C24: on_move with a negative x or a negative y sends a position frame
\* whose X and Y are both inside the device range 0..4096.
C24_NegativeCoordinatesStayInRange ==
    [][(call'.op = "on_move" /\ (call'.args[1] < 0 \/ call'.args[2] < 0)) =>
          /\ Len(port') = Len(port) + 1
          /\ SentCoordinate(port'[Len(port')], 2) \in 0..4096
          /\ SentCoordinate(port'[Len(port')], 4) \in 0..4096]_vars

ButtonCode == [RELEASE |-> 0, LEFT |-> 1, RIGHT |-> 2, MIDDLE |-> 4]

\* C25: on_click(x, y, button, down) sends with command 0x05 the payload
\* 01 b 00 00 00, b the button's code when down and 0 when not, whatever x
\* and y are, and returns True.
C25_ClickSendsButton ==
    [][call'.op = "on_click" =>
          LET b == IF call'.args[4] THEN ButtonCode[call'.args[3]] ELSE 0
          IN  SendsMouse(<<5>>, <<1, b, 0, 0, 0>>)]_vars

\* The middle button went down at a point off the origin.
C25_Witness ==
    /\ call.op = "on_click"
    /\ call.args = <<5, -7, "MIDDLE", TRUE>>
    /\ port = << <<87, 171, 0, 5, 5, 1, 4, 0, 0, 0, 17>> >>

\* n in -32768..32767 as 2 bytes, high byte first, two's complement.
TwosComplement(n) ==
    LET u == IF n < 0 THEN 65536 + n ELSE n IN <<u \div 256, u % 256>>

\* C26: on_scroll(x, y, dx, dy) with dx and dy in -32768..32767 sends with
\* command 0x05 the payload 01, dx, dy, each delta as 2 bytes big-endian
\* two's complement, whatever x and y are.
C26_ScrollSendsSignedDeltas ==
    [][(/\ call'.op = "on_scroll"
        /\ call'.args[3] \in -32768..32767
        /\ call'.args[4] \in -32768..32767) =>
          SendsMouse(<<5>>, <<1>> \o TwosComplement(call'.args[3])
                                  \o TwosComplement(call'.args[4]))]_vars

\* A scroll by dy = -1 sent 01 00 00 FF FF.
C26_Witness ==
    /\ call.op = "on_scroll"
    /\ call.args[3] = 0
    /\ call.args[4] = -1
    /\ port = << <<87, 171, 0, 5, 5, 1, 0, 0, 255, 255, 11>> >>


(***************************************************************************)
(* The keyboards among the attached devices.                               *)
(***************************************************************************)
\* The device has a boot-keyboard HID interface with an interrupt-IN
\* endpoint among the interfaces of its active configuration.
HasKeyboardInterface(device) ==
    /\ device.config = "ok"
    /\ \E i \in 1..Len(device.interfaces) :
          LET f == device.interfaces[i] IN
          /\ f.cls = 3 /\ f.sub = 1 /\ f.proto = 1
          /\ \E j \in 1..Len(f.endpoints) :
                f.endpoints[j].dir = "in" /\ f.endpoints[j].type = "intr"

\* The devices of a result, by their position in the list found.
DevicesOf(result) == { result[i][2][2] : i \in 1..Len(result) }

\* C27: get_usb_endpoints() raises nothing and returns exactly the attached
\* devices that have a boot-keyboard HID interface with an interrupt-IN
\* endpoint; a device whose introspection raises is left out and the others
\* are still returned; with no device the result is empty.
C27_EndpointsAreExactlyTheKeyboards ==
    ret.err # "not called" =>
        /\ ret.err = "none"
        /\ DevicesOf(ret.val) =
              { i \in 1..Len(call.devices) :
                    HasKeyboardInterface(call.devices[i]) }


(***************************************************************************)
(* The keyboard listener's choice of backend.                              *)
(***************************************************************************)
\* C28: run_keyboard constructs, for each of the modes USB, PYNPUT, TTY and
\* CURSES, the backend of that mode on the listener's serial port and
\* enters its run(); for NONE it returns with no backend constructed and
\* nothing handed to the transport.
C28_RunKeyboardStartsTheBackend ==
    [][call' = ListenCall("run_keyboard", "keyboard") =>
          /\ ret'.err = "none"
          /\ write_calls' = write_calls
          /\ wire' = wire
          /\ thread'["keyboard"] = IF mode = "NONE" THEN "dead"
                                   ELSE "capturing"]_vars


(***************************************************************************)
(* Building and merging one scancode.                                      *)
(***************************************************************************)
\* C29: for every key code and modifier byte, merging the list that holds
\* build_scancode(code, modifier) alone returns the 8 bytes modifier, 0,
\* code, 0, 0, 0, 0, 0 that build_scancode made, and merging that result
\* again returns the same 8 bytes.
C29_MergeOfOneIsIdempotent ==
    call.merges >= 1 =>
        /\ merged.err = "none"
        /\ merged.val = KeyWith(call.modifier, call.byte)
        /\ byte_arrays = << KeyWith(call.modifier, call.byte) >>

\* Shift and the key code of "a", built, merged and merged again.
C29_Witness ==
    /\ call.merges = 2
    /\ call.byte = 4
    /\ call.modifier = 2
    /\ merged.val = <<2, 0, 4, 0, 0, 0, 0, 0>>


(***************************************************************************)
(* Typing a string.                                                        *)
(***************************************************************************)
\* C30: string_to_scancodes(s, key_repeat = r, key_up = u) with r >= 1 and
\* u >= 0 returns n * (r + u) reports for the n characters of s: for each
\* character in order, r copies of its scancode and then u all-zero
\* scancodes.  With r < 1 or u < 0 it raises ValueError and returns nothing.
C30_StringToScancodes ==
    ret.err # "not called" =>
        LET s == call.input_string
            r == call.key_repeat
            u == call.key_up
        IN  IF r < 1 \/ u < 0
                THEN ret.err = "ValueError" /\ ret.val = <<>>
                ELSE /\ ret.err = "none"
                     /\ Len(ret.val) = Len(s) * (r + u)
                     /\ \A k \in 0..(Len(ret.val) - 1) :
                           At(ret.val, k) =
                              IF k % (r + u) < r
                                  THEN ascii_to_scancode(At(s, k \div (r + u)),
                                                         "en_GB")
                                  ELSE Zeros(8)

\* "aB" typed with two copies of each key and one key-up after them.
C30_Witness ==
    /\ call.input_string = <<"a", "B">>
    /\ call.key_repeat = 2
    /\ call.key_up = 1
    /\ ret.err = "none"
    /\ ret.val = << KeyWith(0, 4), KeyWith(0, 4), Zeros(8),
                    KeyWith(2, 5), KeyWith(2, 5), Zeros(8) >>


(***************************************************************************)
(* C31..C38                                                                *)
(***************************************************************************)
\* the 8 bytes of data a written packet carries after its 5 framing bytes
ReportOf(packet) == SubSeq(packet, 6, Len(packet) - 1)

\* C31: every keyboard report the Pynput, Qt and Tk backends write, after any
\* sequence of press and release events, is exactly 8 bytes with byte 1 = 0
\* and bytes 3 to 7 = 0 (at most one key code, in byte 2), and no press or
\* release handler ends with the OverflowError of merge_scancodes.
C31_BackendReportsHoldOneKey ==
    /\ \A i \in 1..Len(write_calls) :
          LET packet == write_calls[i]
              report == ReportOf(packet)
          IN  /\ Len(packet) = 14
              /\ SubSeq(packet, 1, 5) = DEFAULT_HEAD \o DEFAULT_ADDR
                                           \o DEFAULT_CMD \o <<8>>
              /\ Len(report) = 8
              /\ At(report, 1) = 0
              /\ \A j \in 3..7 : At(report, j) = 0
    /\ ret.err # "OverflowError"

\* C31 witness: the Qt backend, holding Control and Shift, handled a third
\* event by merging the two held modifiers with a key that has a code, and
\* the report it wrote carries both bits and that one code.
C31_Witness ==
    /\ backend = "qt"
    /\ Len(modifier_map) = 2
    /\ Len(write_calls) = 3
    /\ call.op = "press"
    /\ ret.err = "none"
    /\ At(ReportOf(write_calls[3]), 0) = 3
    /\ At(ReportOf(write_calls[3]), 2) # 0


\* the loop step that read the Ctrl+Esc report and ended run()
ExitsOnCtrlEsc(c, pc) ==
    /\ c.op = "poll"
    /\ c.read.kind = "data"
    /\ Len(c.read.data) >= 3
    /\ IsCtrlEsc(c.read.data)
    /\ pc = "returned"

\* C32: when the USB passthrough loop ends through the Ctrl+Esc exit
\* sequence, the last keyboard report delivered to the target before run()
\* returns is the all-zero report, so no key or modifier stays held on the
\* target (a target that was sent nothing holds nothing).
C32_CtrlEscLeavesNoKeyHeld ==
    [][ExitsOnCtrlEsc(call', usb_pc') =>
        \/ port' = <<>>
        \/ ReportOf(port'[Len(port')]) = Zeros(8)]_vars


\* a report that is the Ctrl+Esc exit sequence
IsExitReport(data) == Len(data) >= 3 /\ IsCtrlEsc(data)

\* C33: _parse_key returns False, ending the capture loop, only for the
\* Ctrl+Esc report; for every other report read from the endpoint, whatever
\* its length or content, it returns True and the loop continues (the serial
\* port accepting the write).
C33_OnlyCtrlEscEndsTheLoop ==
    [][(call'.op = "poll" /\ call'.read.kind = "data" /\ port_open) =>
        IF IsExitReport(call'.read.data)
            THEN usb_pc' = "returned" /\ ret'.val = FALSE
            ELSE usb_pc' = "loop" /\ ret'.val = TRUE /\ ret'.err = "none"]_vars


\* C34: run() calls attach_kernel_driver only if it detached the kernel
\* driver earlier in the same run: a step of run() attaches the driver (it is
\* active after the step and was not before) only when that run's detach call
\* was made and succeeded; when the driver was not active at the start, or
\* the detach failed, no attach happens.
C34_AttachOnlyAfterDetach ==
    [][(driver_active' /\ ~driver_active) => detached']_vars


\* C35: run() invoked when discovery found no keyboard endpoint returns
\* without raising and without touching any USB device or the transport:
\* no kernel driver is detached or attached and nothing is written.
C35_RunWithoutEndpointsReturns ==
    [][(call'.op = "run" /\ usb_endpoints = <<>>) =>
        /\ usb_pc' = "returned"
        /\ ret'.err = "none"
        /\ driver_active' = driver_active
        /\ detached' = detached
        /\ port' = port
        /\ write_calls' = write_calls]_vars


\* stop() of the keyboard listener was called while its backend captures
StoppingACapture ==
    caller["keyboard"] = "in stop" /\ thread["keyboard"] = "capturing"

\* C36: after KeyboardListener.stop() is called while a capture backend is
\* running, the capture thread eventually terminates and stop() eventually
\* returns, with no input event needed: under fair scheduling of the threads
\* alone, such a stop() leads to a dead thread and a returned stop().
C36_StopEndsTheCapture ==
    StoppingACapture ~>
        (thread["keyboard"] = "dead" /\ caller["keyboard"] = "stopped")


\* C37: for every character c of the en_GB layout,
\* scancode_to_ascii(ascii_to_scancode(c, 'en_GB')) = c: the decoder returns
\* the character the encoder was given, and raises nothing.
C37_DecoderInvertsEncoder ==
    (/\ call.op = "scancode_to_ascii"
     /\ call.layout = "en_GB"
     /\ call.ascii_char \in Keys(get_layout("en_GB").val)) =>
        ret = Returned(call.ascii_char)


\* C38: the Pynput, Qt and Tk backends agree on key codes: a modifier or a
\* named key that more than one backend's table holds gets the same modifier
\* bit or key code in each, so the press of the same key writes the same
\* report whichever of two backends captures it.
C38_BackendsAgreeOnKeyCodes ==
    call.op = "second" =>
        /\ ret.err = "none"
        /\ Len(ret.first) = 1
        /\ ret.second = ret.first

=============================================================================
